---- MODULE Spec2Model ----
(***************************************************************************)
(* A model of the SmartCampus admin front end: the three API clients       *)
(* (super-admin, landing-data, common utilities), the pagination           *)
(* renderers, the create forms, the debounced search inputs and the        *)
(* list / mutation handlers of the super-admin, landing-data and           *)
(* announcements pages.                                                    *)
(*                                                                         *)
(* Each group of variables belongs to one specification; the other         *)
(* specifications hold it at its idle value.                               *)
(***************************************************************************)
EXTENDS Integers, Sequences, FiniteSets, TLC

VARIABLES
    apiIn,      \* the last apiCall invocation: module, slug presence, response
    apiOut,     \* what that invocation did
    pgIn,       \* the last pagination render: renderer, container, page data
    pgOut,      \* the controls in the pagination container (innerHTML)
    form,       \* the create form being submitted: which form, field values
    formOut,    \* what the submit handler did so far
    searchInput,      \* the search box being typed into
    now,              \* time since the page loaded, in units of 100 ms
    searchTimeout,    \* when the pending setTimeout callback is due
    searchTerm,       \* the trimmed value the pending callback captured
    inputValue,       \* the search box's value
    inputEvents,      \* the input events so far: when, and the value typed
    listRequests,     \* the list requests so far: when, and the search sent
    detailModalType,  \* detailModalData.type
    unitsResults,     \* the page has the units-search-results element
    screen,             \* the list screen the user is on
    onDashboard,        \* the page has the dashboard summary cards
    location,           \* window.location: this page, or the login page
    curPage,            \* currentPage / state.<list>.currentPage
    listData,           \* collegesData / state.<list>.data / announcementsData
    loading,            \* the loading overlay / loading row is showing
    modal,              \* the create / edit modal: closed or open
    inflight,           \* requests sent and not yet answered
    reqCount,           \* requests sent so far
    isFetchingResults,  \* the in-flight flag of fetchResults
    resultsTabActive,   \* results-tab-content has class active
    reqBudget,          \* requests the user may still start in this run
    lastStep,           \* what the last handler step did
    dialog,         \* the create / edit modal looked at
    modalActive,    \* the modal has class active
    modalForm,      \* the modal's form and the edit state kept with it
    editPending,    \* the announcement editAnnouncement is fetching
    modalLog,       \* the last modal operation, and how the modal was opened
    epIn,           \* the last buildApiEndpoint call: endpoint, COLLEGE_SLUG set
    epOut,          \* the URL it returned
    present,        \* the elements the page has, of those the scripts look up
    written,        \* the elements a script has written into
    toastCount,     \* the toasts in the toast container
    statsCache,     \* dashboardStatsCache is set
    domLog,         \* the last renderer / notifier call
    windowRole,     \* window.USER_ROLE
    bodyRole,       \* document.body.dataset.userRole
    pathname,       \* window.location.pathname of the page that loaded
    accessLog,      \* what enforceAccessControl did on that page
    detailModalData,    \* type, currentPage, totalPages, searchTerm
    detailActive,       \* the detail modal has class active
    detailTimer,        \* the term captured by the pending search timer
    detailInflight,     \* loadDetailData requests awaiting their answer
    detailCount,        \* loadDetailData requests sent so far
    detailLog,          \* the last detail-modal step
    collegesCardsData,  \* currentPage, searchTerm of the colleges-cards modal
    cardsActive,        \* the colleges-cards modal has class active
    cardsTimer,         \* the term captured by its pending search timer
    cardsInflight,      \* loadCollegesCards requests awaiting their answer
    cardsCount,         \* loadCollegesCards requests sent so far
    cardsLog,           \* the last colleges-cards step
    loStorage,          \* localStorage: the token and the user data are there
    loCsrf,             \* where a CSRF token is: "window", "cookie" or "none"
    loRequest,          \* the POST to /superadmin/logout/
    loLog,              \* the last handleLogout call and what followed it
    sbForm,             \* the form whose submit button is looked at
    sbPage,             \* the form's modal open / closed; the page redirecting
    sbDisabled,         \* submitBtn.disabled
    sbInflight,         \* the submit requests awaiting their answer
    sbCount,            \* submit requests sent so far
    sbLog,              \* the last step of the submit handler
    dashboardStatsCache,    \* "set" once an answer is cached, else "null"
    dsInflight,         \* dashboard/overview/ requests awaiting their answer
    dsIssued,           \* such requests sent since the last refreshDashboardStats
    dsCalls,            \* loadDashboardStats / refreshDashboardStats calls so far
    dsLog,              \* the last step
    bkRows,             \* rows (college checkboxes) of the current table
    bkChecked,          \* the rows whose checkbox is checked
    bkSelectAll,        \* #select-all is checked
    bkListenerRows,     \* the checkboxes the newest setupCheckboxes closed over
    bkBar,              \* #bulk-actions is visible (has no class hidden)
    bkInflight,         \* requests of the bulk handlers and of loadColleges
    bkCount,            \* requests sent so far
    bkLog               \* the last step

apiVars == <<apiIn, apiOut>>
pgVars == <<pgIn, pgOut>>
formVars == <<form, formOut>>
dbVars == <<searchInput, now, searchTimeout, searchTerm, inputValue,
            inputEvents, listRequests, detailModalType, unitsResults>>

hStatic == <<screen, onDashboard, resultsTabActive, reqBudget>>
hVars == <<screen, onDashboard, location, curPage, listData, loading, modal,
           inflight, reqCount, isFetchingResults, resultsTabActive, reqBudget,
           lastStep>>

mVars == <<dialog, modalActive, modalForm, editPending, modalLog>>

\* The groups of the smaller specifications.
epVars == <<epIn, epOut>>
domVars == <<present, written, toastCount, statsCache, domLog>>
acVars == <<windowRole, bodyRole, pathname, accessLog>>
dtVars == <<detailModalData, detailActive, detailTimer, detailInflight,
            detailCount, detailLog, collegesCardsData, cardsActive, cardsTimer,
            cardsInflight, cardsCount, cardsLog>>
detailOnly == <<detailModalData, detailActive, detailTimer, detailInflight,
                detailCount, detailLog>>
cardsOnly == <<collegesCardsData, cardsActive, cardsTimer, cardsInflight,
               cardsCount, cardsLog>>
loVars == <<loStorage, loCsrf, loRequest, loLog>>
sbVars == <<sbForm, sbPage, sbDisabled, sbInflight, sbCount, sbLog>>
dsVars == <<dashboardStatsCache, dsInflight, dsIssued, dsCalls, dsLog>>
bkVars == <<bkRows, bkChecked, bkSelectAll, bkListenerRows, bkBar,
           bkInflight, bkCount, bkLog>>
yVars == <<dtVars, loVars, sbVars, dsVars, bkVars>>
xVars == <<mVars, epVars, domVars, acVars, yVars>>

vars == <<apiVars, pgVars, formVars, dbVars, hVars, xVars>>

None == "none"

(***************************************************************************)
(* API clients                                                             *)
(***************************************************************************)

\* The three apiCall implementations.
Modules == {"superadmin", "landing", "common"}

\* HTTP statuses the server answers with; 0 stands for a rejected fetch
\* (network / transport error: no response at all).
NetworkError == 0
Statuses == {NetworkError, 200, 201, 204, 400, 401, 403, 404, 500}

\* Content-Type header: JSON, something else (an HTML error page), or absent.
ContentTypes == {"json", "html", "absent"}

\* Body text: a JSON object without / with an error or message field, the
\* empty string, or text that is not JSON.
Bodies == {"object", "object_err", "empty", "invalid"}

Responses == [status : Statuses, ctype : ContentTypes, body : Bodies]

\* response.ok
IsOk(status) == status >= 200 /\ status <= 299

IsAuthFailure(status) == status = 401 \/ status = 403

\* What one apiCall invocation did.
\*   result   : "data" (parsed JSON returned), "success" ({success: true}),
\*              "null" (null returned) or "throw" (error rethrown to the caller)
\*   msg      : which error message was thrown
\*   toasts   : number of error toasts apiCall itself showed
\*   redirect : window.location.href was set to /admin/login/
\*   bodyRead : response.json() / response.text() was awaited
\*   sent     : fetch was called
Outcome(result, msg, toasts, redirect, bodyRead, sent) ==
    [result |-> result, msg |-> msg, toasts |-> toasts, redirect |-> redirect,
     bodyRead |-> bodyRead, sent |-> sent]

\* catch (error) { console.error; showToast('error', ...); throw error; }
Thrown(msg, redirect, bodyRead, sent) ==
    Outcome("throw", msg, 1, redirect, bodyRead, sent)

\* super-admin apiCall (API_BASE_URL + endpoint, no tenant slug)
apiCallSuperadmin(resp) ==
    IF resp.status = NetworkError
    THEN Thrown("network", FALSE, FALSE, TRUE)
    ELSE IF resp.ctype # "json"
    THEN IF ~IsOk(resp.status)
         THEN Thrown("http_status", FALSE, FALSE, TRUE)
         ELSE Outcome("null", None, 0, FALSE, FALSE, TRUE)
    \* const data = await response.json();
    ELSE IF resp.body \in {"empty", "invalid"}
    THEN Thrown("syntax_error", FALSE, TRUE, TRUE)
    ELSE IF ~IsOk(resp.status)
    THEN IF IsAuthFailure(resp.status)
         THEN Outcome("null", None, 0, TRUE, TRUE, TRUE)
         ELSE Thrown(IF resp.body = "object_err" THEN "server_message"
                     ELSE "api_request_failed", FALSE, TRUE, TRUE)
    ELSE Outcome("data", None, 0, FALSE, TRUE, TRUE)

\* common-utilities apiCall: buildApiEndpoint never throws (it falls back to
\* API_BASE_URL when there is no slug); the rest is the super-admin code.
apiCallCommon(resp) ==
    IF resp.status = NetworkError
    THEN Thrown("network", FALSE, FALSE, TRUE)
    ELSE IF resp.ctype # "json"
    THEN IF ~IsOk(resp.status)
         THEN Thrown("http_status", FALSE, FALSE, TRUE)
         ELSE Outcome("null", None, 0, FALSE, FALSE, TRUE)
    ELSE IF resp.body \in {"empty", "invalid"}
    THEN Thrown("syntax_error", FALSE, TRUE, TRUE)
    ELSE IF ~IsOk(resp.status)
    THEN IF IsAuthFailure(resp.status)
         THEN Outcome("null", None, 0, TRUE, TRUE, TRUE)
         ELSE Thrown(IF resp.body = "object_err" THEN "server_message"
                     ELSE "api_request_failed", FALSE, TRUE, TRUE)
    ELSE Outcome("data", None, 0, FALSE, TRUE, TRUE)

\* landing-data apiCall: buildApiEndpoint throws without a college slug;
\* 204 and 401/403 are handled before the body is looked at.
apiCallLanding(slug, resp) ==
    IF ~slug
    THEN Thrown("no_slug", FALSE, FALSE, FALSE)
    ELSE IF resp.status = NetworkError
    THEN Thrown("network", FALSE, FALSE, TRUE)
    ELSE IF resp.status = 204
    THEN Outcome("success", None, 0, FALSE, FALSE, TRUE)
    ELSE IF IsAuthFailure(resp.status)
    THEN Outcome("null", None, 0, TRUE, FALSE, TRUE)
    ELSE IF resp.ctype # "json"
    THEN IF ~IsOk(resp.status)
         THEN Thrown("http_status", FALSE, FALSE, TRUE)
         ELSE Outcome("null", None, 0, FALSE, FALSE, TRUE)
    \* const text = await response.text();
    ELSE IF resp.body = "invalid"
    THEN IF IsOk(resp.status)
         THEN Outcome("success", None, 0, FALSE, TRUE, TRUE)
         ELSE Thrown("invalid_json", FALSE, TRUE, TRUE)
    ELSE IF resp.body = "empty"
    THEN IF IsOk(resp.status)
         THEN Outcome("success", None, 0, FALSE, TRUE, TRUE)
         ELSE Thrown("empty_response", FALSE, TRUE, TRUE)
    ELSE IF ~IsOk(resp.status)
    THEN Thrown(IF resp.body = "object_err" THEN "server_message"
                ELSE "api_request_failed", FALSE, TRUE, TRUE)
    ELSE Outcome("data", None, 0, FALSE, TRUE, TRUE)

apiCall(mod, slug, resp) ==
    CASE mod = "superadmin" -> apiCallSuperadmin(resp)
      [] mod = "common"     -> apiCallCommon(resp)
      [] mod = "landing"    -> apiCallLanding(slug, resp)

(***************************************************************************)
(* Pagination renderers                                                    *)
(***************************************************************************)

\* Largest total_pages a list endpoint answers with.
MaxPages == 12

\* The two windowed renderers.
Renderers == {"renderPagination", "renderCollegesCardsPagination"}

\* One control of the rendered pagination bar.
\*   kind : "prev", "num", "ellipsis" or "next"
\*   page : the page the control goes to (0 for an ellipsis or a disabled
\*          Previous / Next of the colleges-cards renderer)
Control(kind, page, disabled, active) ==
    [kind |-> kind, page |-> page, disabled |-> disabled, active |-> active]

\* i === 1 || i === totalPages || (i >= currentPage - 2 && i <= currentPage + 2)
WideWindow(i, currentPage, totalPages) ==
    i = 1 \/ i = totalPages \/ (i >= currentPage - 3 /\ i <= currentPage + 3)

IsNumbered(i, currentPage, totalPages) ==
    i = 1 \/ i = totalPages \/ (i >= currentPage - 2 /\ i <= currentPage + 2)

\* else if (i === currentPage - 3 || i === currentPage + 3)
EllipsisPerSkippedPage(i, currentPage) == TRUE

IsEllipsis(i, currentPage) ==
    i = currentPage - 3 \/ i = currentPage + 3

\* for (let i = 1; i <= totalPages; i++) { ... }, from i on
RECURSIVE PageNumbers(_, _, _)
PageNumbers(i, currentPage, totalPages) ==
    IF i > totalPages
    THEN <<>>
    ELSE (IF IsNumbered(i, currentPage, totalPages)
          THEN <<Control("num", i, FALSE, i = currentPage)>>
          ELSE IF IsEllipsis(i, currentPage)
          THEN <<Control("ellipsis", 0, FALSE, FALSE)>>
          ELSE <<>>)
         \o PageNumbers(i + 1, currentPage, totalPages)

\* renderPagination(containerId, currentPage, totalPages, onPageChange) of the
\* common utilities: the html written to the container.
renderPagination(currentPage, totalPages) ==
    <<Control("prev", currentPage - 1, currentPage = 1, FALSE)>>
    \o PageNumbers(1, currentPage, totalPages)
    \o <<Control("next", currentPage + 1, currentPage = totalPages, FALSE)>>

\* x || 1
OrOne(x) == IF x = 0 THEN 1 ELSE x

\* renderCollegesCardsPagination(data) of super-admin; data.previous and
\* data.next are page numbers, 0 standing for null.
renderCollegesCardsPagination(data) ==
    IF data.total_pages <= 1
    THEN <<>>
    ELSE <<IF data.previous # 0
           THEN Control("prev", data.previous, FALSE, FALSE)
           ELSE Control("prev", 0, TRUE, FALSE)>>
         \o PageNumbers(1, OrOne(data.page), OrOne(data.total_pages))
         \o <<IF data.next # 0
              THEN Control("next", data.next, FALSE, FALSE)
              ELSE Control("next", 0, TRUE, FALSE)>>

\* renderPagination(totalPages) of super-admin, which loadColleges calls for
\* the colleges table: one button per page, the current page's one active.
renderPaginationSuperadmin(currentPage, totalPages) ==
    [i \in 1..totalPages |-> Control("num", i, FALSE, i = currentPage)]

(***************************************************************************)
(* Create forms: college form (super-admin), announcement form, and the    *)
(* two school registration forms                                           *)
(***************************************************************************)

\* Field values are strings, modelled as sequences of characters.
Empty == <<>>
Spaces1 == <<" ">>
Spaces6 == <<" ", " ", " ", " ", " ", " ">>
Text2 == <<"a", "b">>
Text3 == <<"a", "b", "c">>
Text6 == <<"a", "b", "c", "d", "e", "f">>
Padded == <<" ", "a", "b", "c">>
Email == <<"a", "@", "b", ".", "c">>
NoDotEmail == <<"a", "@", "b">>
Url == <<"a", ":", "b">>
Phone7 == <<"0", "7", "0", "0", "0", "0", "0">>
Phone3 == <<"0", "7", "0">>
Num5 == <<"5">>
Negative == <<"-", "1">>

IsSpace(c) == c = " "
IsDigit(c) == c \in {"0", "1", "2", "3", "4", "5", "6", "7", "8", "9"}
IsLetter(c) == c \in {"a", "b", "c", "d", "e", "f"}

\* String.prototype.trim
RECURSIVE TrimLeft(_)
TrimLeft(v) ==
    IF v # <<>> /\ IsSpace(Head(v)) THEN TrimLeft(Tail(v)) ELSE v

RECURSIVE TrimRight(_)
TrimRight(v) ==
    IF v # <<>> /\ IsSpace(v[Len(v)])
    THEN TrimRight(SubSeq(v, 1, Len(v) - 1))
    ELSE v

Trim(v) == TrimRight(TrimLeft(v))

\* !value.trim()
IsBlankTrimmed(v) == Trim(v) = <<>>

\* /^[^\s@]+@[^\s@]+\.[^\s@]+$/.test(email)
isValidEmail(v) ==
    /\ \A k \in 1..Len(v) : ~IsSpace(v[k])
    /\ Cardinality({ k \in 1..Len(v) : v[k] = "@" }) = 1
    /\ \E at \in 2..Len(v) :
          /\ v[at] = "@"
          /\ \E dot \in (at + 2)..(Len(v) - 1) : v[dot] = "."

\* new URL(url) does not throw: the text starts with a scheme and a colon.
isValidURL(v) ==
    \E colon \in 2..Len(v) :
        /\ v[colon] = ":"
        /\ \A k \in 1..(colon - 1) : IsLetter(v[k])

\* /^[\d\s\-\+\(\)]+$/.test(phone) && phone.replace(/\D/g, '').length >= 7
isValidPhone(v) ==
    /\ v # <<>>
    /\ \A k \in 1..Len(v) : IsDigit(v[k]) \/ IsSpace(v[k])
                            \/ v[k] \in {"-", "+", "(", ")"}
    /\ Cardinality({ k \in 1..Len(v) : IsDigit(v[k]) }) >= 7

\* !(isNaN(parseInt(value)) || parseInt(value) < 0)
IsNonNegativeInt(v) ==
    LET t == TrimLeft(v)
    IN  t # <<>> /\ (IsDigit(t[1]) \/ (t[1] = "+" /\ Len(t) > 1 /\ IsDigit(t[2])))

Forms == {"college", "announcement", "registration", "register"}

\* validateCollegeForm(data): the ids showFieldError is called with (a form
\* is valid when there is none).
validateCollegeFormNoPhone(data) ==
    (IF IsBlankTrimmed(data.name) THEN {"college-name"} ELSE {})
    \cup (IF IsBlankTrimmed(data.owner_name) THEN {"owner-name"} ELSE {})
    \cup (IF IsBlankTrimmed(data.owner_email) \/ ~isValidEmail(data.owner_email)
          THEN {"owner-email"} ELSE {})
    \cup (IF IsBlankTrimmed(data.location) THEN {"location"} ELSE {})
    \cup (IF data.type = <<>> THEN {"college-type"} ELSE {})

validateCollegeForm(data) ==
    (IF IsBlankTrimmed(data.name) THEN {"college-name"} ELSE {})
    \cup (IF IsBlankTrimmed(data.owner_name) THEN {"owner-name"} ELSE {})
    \cup (IF IsBlankTrimmed(data.owner_email) \/ ~isValidEmail(data.owner_email)
          THEN {"owner-email"} ELSE {})
    \cup (IF IsBlankTrimmed(data.owner_phone) THEN {"owner-phone"} ELSE {})
    \cup (IF IsBlankTrimmed(data.location) THEN {"location"} ELSE {})
    \cup (IF data.type = <<>> THEN {"college-type"} ELSE {})

\* validateForm() of the announcements page.
validateAnnouncementForm(data) ==
    (IF IsBlankTrimmed(data.title) THEN {"title-error"} ELSE {})
    \cup (IF IsBlankTrimmed(data.content) THEN {"content-error"} ELSE {})
    \cup (IF data.target_type = <<>> THEN {"target-type-error"} ELSE {})

\* validateForm(formData) of the registration page (register.js).
validateRegistrationForm(data) ==
    (IF data.school_name = <<>> \/ IsBlankTrimmed(data.school_name)
     THEN {"school-name"} ELSE {})
    \cup (IF data.school_type = <<>> THEN {"school-type"} ELSE {})
    \cup (IF data.school_address = <<>> \/ IsBlankTrimmed(data.school_address)
          THEN {"school-address"} ELSE {})
    \cup (IF data.county_city = <<>> \/ IsBlankTrimmed(data.county_city)
          THEN {"county-city"} ELSE {})
    \cup (IF data.school_contact_number = <<>>
             \/ IsBlankTrimmed(data.school_contact_number)
          THEN {"school-contact"} ELSE {})
    \cup (IF data.school_email = <<>> \/ ~isValidEmail(data.school_email)
          THEN {"school-email"} ELSE {})
    \cup (IF data.school_website # <<>> /\ ~isValidURL(data.school_website)
          THEN {"school-website"} ELSE {})
    \cup (IF data.owner_full_name = <<>> \/ IsBlankTrimmed(data.owner_full_name)
          THEN {"owner-name"} ELSE {})
    \cup (IF data.position = <<>> \/ IsBlankTrimmed(data.position)
          THEN {"position"} ELSE {})
    \cup (IF data.owner_email = <<>> \/ ~isValidEmail(data.owner_email)
          THEN {"owner-email"} ELSE {})
    \cup (IF data.owner_phone = <<>> \/ IsBlankTrimmed(data.owner_phone)
          THEN {"owner-phone"} ELSE {})
    \cup (IF data.username = <<>> \/ IsBlankTrimmed(data.username)
          THEN {"username"}
          ELSE IF Len(data.username) < 3 THEN {"username"} ELSE {})
    \cup (IF data.password = <<>>
          THEN {"password"}
          ELSE IF Len(data.password) < 6 THEN {"password"} ELSE {})

\* validateForm() of the register form (admin.js): errors are shown beside
\* the field itself, so they are named by the field.
RegisterRequired ==
    {"school_name", "school_type", "school_address", "county_city",
     "school_contact_number", "school_email", "owner_full_name",
     "owner_email", "owner_phone", "position", "number_of_students",
     "number_of_teachers", "username", "password"}

validateRegisterForm(data) ==
    { f \in RegisterRequired : IsBlankTrimmed(data[f]) }
    \cup { f \in {"school_email", "owner_email"} :
              data[f] # <<>> /\ ~isValidEmail(data[f]) }
    \cup { f \in {"school_contact_number", "owner_phone"} :
              data[f] # <<>> /\ ~isValidPhone(data[f]) }
    \cup { f \in {"number_of_students", "number_of_teachers"} :
              data[f] # <<>> /\ ~IsNonNegativeInt(data[f]) }
    \cup { f \in {"username"} : data[f] # <<>> /\ Len(data[f]) < 3 }
    \cup { f \in {"password"} : data[f] # <<>> /\ Len(data[f]) < 6 }
    \cup { f \in {"school_website"} : data[f] # <<>> /\ ~isValidURL(data[f]) }

\* What the user typed into each form.
TextValues == {Empty, Spaces1, Text3}
PlainValues == {Empty, Text3}

CollegeInputs ==
    [name : TextValues, owner_name : TextValues,
     owner_email : {Empty, Spaces1, NoDotEmail, Email},
     owner_phone : TextValues, location : TextValues,
     type : PlainValues]

AnnouncementInputs ==
    [title : {Empty, Spaces1, Padded, Text3},
     content : {Empty, Spaces1, Padded, Text3},
     target_type : {Empty, <<"a">>, <<"i">>},
     targeted : {0, 1}]

RegistrationInputs ==
    [school_name : PlainValues, school_type : PlainValues,
     school_address : PlainValues, county_city : PlainValues,
     school_contact_number : PlainValues,
     school_email : {Empty, Email},
     school_website : {Empty, Text2},
     owner_full_name : PlainValues, position : PlainValues,
     owner_email : {Empty, Email}, owner_phone : PlainValues,
     username : {Empty, Text2, Text3},
     password : {Empty, Spaces6, Text3, Text6}]

RegisterInputs ==
    [school_name : PlainValues, school_type : PlainValues,
     school_address : PlainValues, county_city : PlainValues,
     school_contact_number : {Empty, Phone3, Phone7},
     school_email : {Empty, Email},
     school_website : {Empty},
     owner_full_name : PlainValues, owner_email : {Empty, Email},
     owner_phone : {Empty, Phone7}, position : PlainValues,
     number_of_students : {Empty, Num5},
     number_of_teachers : {Empty, Num5},
     username : {Empty, Text3},
     password : {Empty, Spaces6, Text6}]

FormInputs(kind) ==
    CASE kind = "college"      -> CollegeInputs
      [] kind = "announcement" -> AnnouncementInputs
      [] kind = "registration" -> RegistrationInputs
      [] kind = "register"     -> RegisterInputs

\* What a submit handler did.
\*   phase    : "filled" before the submit event, "submitted" after the handler
\*              reached its first await or returned
\*   errors   : the field-error elements holding a message
\*   requests : network requests the handler issued
\*   toasts   : error toasts the handler showed
FormOut(phase, errors, requests, toasts) ==
    [phase |-> phase, errors |-> errors, requests |-> requests,
     toasts |-> toasts]

\* The required fields of each form and the error element of each.
CollegeRequired ==
    {"name", "owner_name", "owner_email", "owner_phone", "location", "type"}

AnnouncementRequired == {"title", "content", "target_type"}

RegistrationRequired ==
    {"school_name", "school_type", "school_address", "county_city",
     "school_contact_number", "school_email", "owner_full_name", "position",
     "owner_email", "owner_phone", "username", "password"}

RequiredFields(kind) ==
    CASE kind = "college"      -> CollegeRequired
      [] kind = "announcement" -> AnnouncementRequired
      [] kind = "registration" -> RegistrationRequired
      [] kind = "register"     -> RegisterRequired

ErrorElement(kind, field) ==
    CASE kind = "college" ->
            (CASE field = "name"        -> "college-name"
               [] field = "owner_name"  -> "owner-name"
               [] field = "owner_email" -> "owner-email"
               [] field = "owner_phone" -> "owner-phone"
               [] field = "location"    -> "location"
               [] field = "type"        -> "college-type")
      [] kind = "announcement" ->
            (CASE field = "title"       -> "title-error"
               [] field = "content"     -> "content-error"
               [] field = "target_type" -> "target-type-error")
      [] kind = "registration" ->
            (CASE field = "school_name"           -> "school-name"
               [] field = "school_type"           -> "school-type"
               [] field = "school_address"        -> "school-address"
               [] field = "county_city"           -> "county-city"
               [] field = "school_contact_number" -> "school-contact"
               [] field = "school_email"          -> "school-email"
               [] field = "owner_full_name"       -> "owner-name"
               [] field = "position"              -> "position"
               [] field = "owner_email"           -> "owner-email"
               [] field = "owner_phone"           -> "owner-phone"
               [] field = "username"              -> "username"
               [] field = "password"              -> "password")
      [] kind = "register" -> field

\* An error left in the form by an earlier submit.
StaleError(kind) ==
    CASE kind = "college"      -> "owner-phone"
      [] kind = "announcement" -> "title-error"
      [] kind = "registration" -> "school-website"
      [] kind = "register"     -> "school_website"

(***************************************************************************)
(* Debounced search inputs                                                 *)
(***************************************************************************)

\* The five search boxes with a debounced input handler.
SearchInputs == {"college", "detail", "cards", "units", "announcements"}

\* setTimeout(..., 500) of the super-admin and landing-data search boxes,
\* in units of 100 ms.
SearchDelay == 5

\* debounce(loadAnnouncements, 300), in units of 100 ms.
AnnouncementsDelay == 3

\* The wait each input handler passes to setTimeout.
DebounceDelay(input) ==
    IF input = "announcements" THEN AnnouncementsDelay ELSE SearchDelay

\* No setTimeout callback is pending.
NoTimer == -1

\* Input events of one run, and how long a run is watched (units of 100 ms).
MaxInputs == 3
MaxTime == 10

\* What the user can have typed.
SearchValues == {Empty, Text2, Padded}

\* The detail-modal and colleges-cards handlers capture e.target.value.trim()
\* in the closure of the callback; the other three capture nothing.
CapturesTerm(input) == input \in {"detail", "cards"}

\* A timer that ignores its wait.
setTimeoutNoWait(t, wait) == t

\* searchTimeout = setTimeout(callback, wait): the time the callback is due.
setTimeoutDue(t, wait) == t + wait

\* The search parameter of the request the callback issues: the captured term
\* (detail, cards) or the box's value read when the callback runs.  An empty
\* value sends no search parameter, which the server reads as the empty search.
RequestSearch(input, value, term) ==
    IF CapturesTerm(input) THEN term ELSE value

\* Whether the callback issues a request at all: the detail callback needs
\* detailModalData.type, the units callback the results container.
CallbackRequests(input, type, results) ==
    CASE input = "detail" -> type # None
      [] input = "units"  -> results
      [] OTHER            -> TRUE

(***************************************************************************)
(* List screens: loaders and mutation handlers                             *)
(***************************************************************************)

\* The list screens: colleges (super-admin), students, departments,
\* enrollments and results (landing-data), announcements.
Screens == {"colleges", "students", "departments", "enrollments", "results",
            "announcements"}

\* Requests the user starts in one run, pages of a list, checked checkboxes.
MaxReq == 1
\* Requests the user starts in one run of the list fetchers alone.
MaxFetch == 2
MaxListPage == 2
MaxSelected == 1

\* collegesData = [] / state.<list>.data = []
EmptyList == 0

\* data.results / data.page of a response object that has no such field
Undefined == -1

\* A request in flight.
\*   cont : the function that awaits the answer
\*   kind : "mutation", "list" or "summary"
\*   page : the page a list request asks for (0 otherwise)
\*   by   : the handler whose step sent it
Request(id, cont, kind, page, by) ==
    [id |-> id, cont |-> cont, kind |-> kind, page |-> page, by |-> by]

NoReq == Request(0, None, None, 0, None)
NoResp == [status |-> -1, ctype |-> None, body |-> None]

\* The part of the page a handler may change.
PageState ==
    [currentPage |-> curPage, listData |-> listData, loading |-> loading,
     modal |-> modal]

\* What one handler step did.
\*   handler   : the function that ran (from its start or from an await)
\*   confirmed : the confirm dialog was shown and accepted
\*   selected  : checked college checkboxes (bulk handlers)
\*   kind, page, by : the request whose answer resumed the function
\*   status    : the status of that answer
\*   result    : what apiCall gave the function
\*   events    : toasts shown, modal closed, requests sent, in order
\*   thrown    : the function rethrew the error to its caller
\*   pre       : the page state before the step
Step(handler, confirmed, selected, req, resp, result, events, thrown) ==
    [handler |-> handler, confirmed |-> confirmed, selected |-> selected,
     kind |-> req.kind, page |-> req.page, by |-> req.by,
     status |-> resp.status, result |-> result, events |-> events,
     thrown |-> thrown, pre |-> PageState]

\* showToast('error', ...) n times
ErrToasts(n) == [i \in 1..n |-> "toast:error"]

\* The answer is an object with a results array: if (data && data.results)
HasResults(resp, out) == out.result = "data" /\ resp.body = "object"

\* if (data): parsed JSON or {success: true}
Truthy(out) == out.result \in {"data", "success"}

\* fetchX(page = 1): an undefined argument takes the default
PageArg(p) == IF p = Undefined THEN 1 ELSE p

\* The answers a handler's request gets: one of each kind the API clients
\* tell apart (JSON with and without the expected fields, no content, an
\* HTML page, an empty JSON body, client and server errors, no answer).
Answer(status, ctype, body) == [status |-> status, ctype |-> ctype, body |-> body]

ServerAnswers ==
    { Answer(200, "json", "object"),     Answer(201, "json", "object"),
      Answer(200, "json", "object_err"), Answer(200, "json", "empty"),
      Answer(204, "absent", "empty"),    Answer(200, "html", "invalid"),
      Answer(400, "json", "object_err"), Answer(403, "json", "object_err"),
      Answer(403, "html", "invalid"),    Answer(404, "json", "object_err"),
      Answer(500, "html", "invalid"),    Answer(500, "json", "object"),
      Answer(NetworkError, "absent", "empty") }

\* The three row actions and the three bulk actions of the colleges table.
CollegeOps == {"approveCollege", "suspendCollege", "deleteCollege"}
BulkOps == {"handleBulkApprove", "handleBulkSuspend", "handleBulkDelete"}

\* A loadDashboardData without the early return.
loadDashboardDataAlways(dash) == TRUE

\* loadDashboardData goes on past its first lines only when the page has the
\* total-colleges element or its path contains /dashboard.
loadDashboardDataRuns(dash) == dash

\* loadColleges(); loadDashboardData(); each up to its await: the requests
\* they send, numbered from n + 1.
CollegesReloads(by, n, page, dash) ==
    {Request(n + 1, "loadColleges", "list", page, by)} \cup
    (IF loadDashboardDataRuns(dash)
     THEN {Request(n + 2, "loadDashboardData", "summary", 0, by)} ELSE {})

CollegesReloadEvents(dash) ==
    <<"req:list">> \o
    (IF loadDashboardDataRuns(dash) THEN <<"req:summary">> ELSE <<>>)

(***************************************************************************)
(* Create / edit modals                                                    *)
(***************************************************************************)

\* The modals: the college modal (super-admin), the announcement modal, the
\* timetable and student modals (landing-data), and a modal closed by the
\* closeModal of the common utilities.
Dialogs == {"college", "announcement", "timetable", "student", "common"}

\* Ids of the records a modal can be opened on.
MaxId == 2

\* No record: editingAnnouncementId = null, form.dataset.editId = '', a
\* deleted or never set form.dataset.collegeId / timetableId.
NoTarget == 0

\* The form of a modal and the edit state kept with it.
\*   filled   : some field holds a value other than its default
\*   errors   : some field-error element holds text
\*   target   : form.dataset.collegeId / editId / timetableId,
\*              editingAnnouncementId
\*   title    : the modal title: "create", "edit" or "view"
\*   viewMode : form.dataset.viewMode = 'true'
\*   disabled : the inputs are disabled and the submit button is hidden
FormState(filled, errors, target, title, viewMode, disabled) ==
    [filled |-> filled, errors |-> errors, target |-> target, title |-> title,
     viewMode |-> viewMode, disabled |-> disabled]

\* The server-rendered form.
FreshForm == FormState(FALSE, FALSE, NoTarget, "create", FALSE, FALSE)

\* closeModal() of super-admin: form.reset(); clearFormErrors()
closeModalSuperadmin(f) == [f EXCEPT !.filled = FALSE, !.errors = FALSE]

\* closeModal(modalId) of landing-data: form.reset(); form.dataset.editId = ''
\* (the timetable form keeps its id in dataset.timetableId)
closeModalLanding(d, f) ==
    [f EXCEPT !.filled = FALSE,
              !.target = IF d = "timetable" THEN @ ELSE NoTarget]

\* closeModal(modalId) of the common utilities: form.reset();
\* clearFormErrors(form)
closeModalCommon(f) == [f EXCEPT !.filled = FALSE, !.errors = FALSE]

\* closeModal() of the announcements page: form.reset();
\* editingAnnouncementId = null; clearFieldErrors()
closeModalAnnouncements(f) ==
    [f EXCEPT !.filled = FALSE, !.target = NoTarget, !.errors = FALSE]

closeModal(d, f) ==
    CASE d = "college"      -> closeModalSuperadmin(f)
      [] d = "announcement" -> closeModalAnnouncements(f)
      [] d \in {"timetable", "student"} -> closeModalLanding(d, f)
      [] d = "common"       -> closeModalCommon(f)

\* openCollegeModal(college = null); 0 stands for null
openCollegeModal(f, college) ==
    IF college # NoTarget
    THEN [f EXCEPT !.title = "edit", !.filled = TRUE, !.target = college]
    ELSE [f EXCEPT !.title = "create", !.filled = FALSE, !.target = NoTarget]

\* openCreateModal() of the announcements page
openCreateModal(f) ==
    [f EXCEPT !.title = "create", !.filled = FALSE, !.target = NoTarget]

\* openTimetableModal(timetableId = null), and editTimetable's
\* form.dataset.timetableId = timetableId after it
openTimetableModal(f, timetableId) ==
    IF timetableId # NoTarget
    THEN [f EXCEPT !.title = "edit", !.filled = TRUE, !.target = timetableId]
    ELSE [f EXCEPT !.title = "create", !.filled = FALSE]

\* What a modal operation did.
\*   op     : the function that ran
\*   method : the method of the request a submit sent (None: nothing sent)
\*   id     : the record the request's URL names
\*   opened : how the modal was last opened: "create", "edit" or "view"
ModalOp(op, method, id, opened) ==
    [op |-> op, method |-> method, id |-> id, opened |-> opened]

(***************************************************************************)
(* Endpoint construction (common utilities)                                *)
(***************************************************************************)

\* Endpoint strings are sequences of characters: the two separators, a
\* letter and the equals sign.
EndpointChars == {"/", "?", "a", "="}

\* Longest endpoint string.
MaxEndpointLen == 5

Endpoints == UNION { [1..n -> EndpointChars] : n \in 0..MaxEndpointLen }

\* s.indexOf(c) + 1: the position of the first c in s, 0 when there is none
IndexOf(s, c) ==
    IF \E i \in 1..Len(s) : s[i] = c
    THEN CHOOSE i \in 1..Len(s) : s[i] = c /\ \A j \in 1..(i - 1) : s[j] # c
    ELSE 0

\* s.split(c)[0]
SplitFirst(s, c) ==
    IF IndexOf(s, c) = 0 THEN s ELSE SubSeq(s, 1, IndexOf(s, c) - 1)

\* What follows the first c in s.
AfterFirst(s, c) == SubSeq(s, IndexOf(s, c) + 1, Len(s))

\* s.split(c)[1], for an s that includes c
SplitSecond(s, c) == SplitFirst(AfterFirst(s, c), c)

\* s.endsWith('/')
EndsWithSlash(s) == s # <<>> /\ s[Len(s)] = "/"

\* /api/<COLLEGE_SLUG>/ and the fallback API_BASE_URL + '/'; the slug and
\* the word api are one element each.
SlugPrefix == <<"/", "api", "/", "COLLEGE_SLUG", "/">>
BasePrefix == <<"/", "api", "/">>

\* buildApiEndpoint(endpoint) of the common utilities
buildApiEndpoint(endpoint, slug) ==
    LET cleanEndpoint == IF endpoint # <<>> /\ Head(endpoint) = "/"
                         THEN Tail(endpoint) ELSE endpoint
        includes == IndexOf(cleanEndpoint, "?") # 0
        baseEndpoint == IF includes THEN SplitFirst(cleanEndpoint, "?")
                        ELSE cleanEndpoint
        queryString == IF includes THEN <<"?">> \o SplitSecond(cleanEndpoint, "?")
                       ELSE <<>>
        slashed == IF EndsWithSlash(baseEndpoint) THEN baseEndpoint
                   ELSE baseEndpoint \o <<"/">>
        finalEndpoint == slashed \o queryString
    IN  IF slug THEN SlugPrefix \o finalEndpoint ELSE BasePrefix \o finalEndpoint

(***************************************************************************)
(* Renderers and notifiers: the elements they look up                      *)
(***************************************************************************)

\* The elements of the server-rendered page the functions write to: the
\* toast container, the table body, the pagination container and the
\* dashboard cards.
Elements == {"toast-container", "tbody", "pagination", "dashboard-card"}

\* Toasts showing at one time.
MaxToasts == 2

\* How a function treats the element it looks up with getElementById:
\*   "guarded"   : if (!element) return
\*   "unguarded" : the null is dereferenced, a TypeError is thrown
\*   "created"   : a new element is appended to the body, but the null
\*                 found first is dereferenced all the same
LooksUp(fn) ==
    CASE fn = "showToast@common"         -> "guarded"
      [] fn = "showToast@superadmin"     -> "unguarded"
      [] fn = "showToast@landing"        -> "created"
      [] fn = "renderCollegesTable"      -> "guarded"
      [] fn = "renderAnnouncementsTable" -> "unguarded"
      [] fn = "renderPagination@superadmin" -> "guarded"
      [] fn = "renderPagination@common"  -> "guarded"
      [] fn = "updateDashboardUI"        -> "unguarded"

Notifiers == {"showToast@common", "showToast@superadmin", "showToast@landing"}

TableRenderers == {"renderCollegesTable", "renderAnnouncementsTable"}

PaginationRenderers == {"renderPagination@superadmin", "renderPagination@common"}

(***************************************************************************)
(* Front-end access control                                                *)
(***************************************************************************)

\* window.USER_ROLE / document.body.dataset.userRole: the two roles the
\* templates write, or nothing.
Roles == {"super_admin", "college_admin", None}

\* The list without its last entry.
collegeSpecificPathsNoSettings ==
    {"students", "departments", "courses", "units", "lecturers", "exams",
     "fees", "announcements", "timetable"}

\* collegeSpecificPaths: the names between the slashes of its entries
collegeSpecificPaths ==
    {"students", "departments", "courses", "units", "lecturers", "exams",
     "fees", "announcements", "timetable", "settings"}

\* A pathname is '/' + its segments joined by '/' (+ '/' when trailing); a
\* segment is a name without a slash, or empty (two slashes in a row).
MaxSegments == 3

\* The names a path is made of: those of the college pages, a college slug,
\* the super-admin prefix and the empty segment.
SegmentNames ==
    {"students", "departments", "courses", "units", "lecturers", "exams",
     "fees", "announcements", "timetable", "settings",
     "nairobi", "superadmin", ""}

Pathnames ==
    [segments : UNION { [1..n -> SegmentNames] : n \in 0..MaxSegments },
     trailing : BOOLEAN]

\* new RegExp(`/[^/]+\/<name>/`).test(path): somewhere in the path a slash,
\* a non-empty segment, a slash, the name and a slash.
PatternTest(path, name) ==
    \E i \in 1..(Len(path.segments) - 1) :
        /\ path.segments[i] # ""
        /\ path.segments[i + 1] = name
        /\ (i + 1 < Len(path.segments) \/ path.trailing)

\* collegeSpecificPaths.some(collegePath => pattern.test(path))
isCollegeSpecific(path) ==
    \E name \in collegeSpecificPaths : PatternTest(path, name)

\* isSuperAdmin()
isSuperAdmin(fromWindow, fromBody) ==
    fromWindow = "super_admin" \/ fromBody = "super_admin"

(***************************************************************************)
(* Idle values: what a group of variables holds under the specifications   *)
(* that do not use it                                                      *)
(***************************************************************************)

\* Before any invocation.
ApiNoInput ==
    [mod |-> None, slug |-> FALSE,
     resp |-> [status |-> NetworkError, ctype |-> "absent", body |-> "empty"]]

ApiNoOutput == Outcome(None, None, 0, FALSE, FALSE, FALSE)

ApiIdle == apiIn = ApiNoInput /\ apiOut = ApiNoOutput

PgNoInput ==
    [fn |-> None, container |-> FALSE, page |-> 0, total_pages |-> 0,
     previous |-> 0, next |-> 0]

PgIdle == pgIn = PgNoInput /\ pgOut = <<>>
FormNoInput == [kind |-> None, data |-> [none |-> Empty]]

FormIdle == form = FormNoInput /\ formOut = FormOut(None, {}, 0, 0)

DbIdle ==
    /\ searchInput = None
    /\ now = 0
    /\ searchTimeout = NoTimer
    /\ searchTerm = Empty
    /\ inputValue = Empty
    /\ inputEvents = <<>>
    /\ listRequests = <<>>
    /\ detailModalType = None
    /\ unitsResults = FALSE

MIdle ==
    /\ dialog = None
    /\ modalActive = FALSE
    /\ modalForm = FreshForm
    /\ editPending = NoTarget
    /\ modalLog = ModalOp(None, None, NoTarget, None)

\* No call yet.
EpNoInput == [endpoint |-> <<>>, slug |-> FALSE, called |-> FALSE]

EpIdle == epIn = EpNoInput /\ epOut = <<>>

\* The state a renderer or notifier may change.
DomState ==
    [present |-> present, written |-> written, toasts |-> toastCount,
     statsCache |-> statsCache]

DomCall(fn, element, threw, pre) ==
    [fn |-> fn, element |-> element, threw |-> threw, pre |-> pre]

NoDomCall ==
    DomCall(None, None, FALSE,
            [present |-> {}, written |-> {}, toasts |-> 0, statsCache |-> FALSE])

DomIdle ==
    /\ present = {}
    /\ written = {}
    /\ toastCount = 0
    /\ statsCache = FALSE
    /\ domLog = NoDomCall

NoPath == [segments |-> <<>>, trailing |-> FALSE]

AcIdle ==
    /\ windowRole = None
    /\ bodyRole = None
    /\ pathname = NoPath
    /\ accessLog = None

\* let detailModalData = { type: null, currentPage: 1, totalPages: 1,
\* searchTerm: '', allData: [] }
DetailClosed ==
    [type |-> None, currentPage |-> 1, totalPages |-> 1, searchTerm |-> ""]

\* collegesCardsData as declared: currentPage 1, searchTerm ''
CardsClosed == [currentPage |-> 1, searchTerm |-> ""]

\* No search timer is pending.
NoTerm == "no timer"

\* What one detail-modal step did: the function, whether it sent a request,
\* whether the modal was open when it ran.
DetailStep(fn, sent, open) == [fn |-> fn, sent |-> sent, open |-> open]

DtIdle ==
    /\ detailModalData = DetailClosed
    /\ detailActive = FALSE
    /\ detailTimer = NoTerm
    /\ detailInflight = {}
    /\ detailCount = 0
    /\ detailLog = DetailStep(None, FALSE, FALSE)
    /\ collegesCardsData = CardsClosed
    /\ cardsActive = FALSE
    /\ cardsTimer = NoTerm
    /\ cardsInflight = {}
    /\ cardsCount = 0
    /\ cardsLog = DetailStep(None, FALSE, FALSE)

\* The logout request: "none", "inflight", "settled" or "aborted", and the
\* status it settled with.
LogoutRequest(state, status) == [state |-> state, status |-> status]

\* What handleLogout did, in order, and localStorage before it ran.
LogoutLog(events, pre) == [events |-> events, pre |-> pre]

Storage(token, user) == [token |-> token, user |-> user]

LoIdle ==
    /\ loStorage = Storage(FALSE, FALSE)
    /\ loCsrf = None
    /\ loRequest = LogoutRequest("none", -1)
    /\ loLog = LogoutLog(<<>>, Storage(FALSE, FALSE))

\* What the submit handler did last: "returned" (invalid form), "sent" or
\* "settled", the status of the answer and how the request ended.
SubmitStep(fn, status, outcome) ==
    [fn |-> fn, status |-> status, outcome |-> outcome]

SbIdle ==
    /\ sbForm = None
    /\ sbPage = None
    /\ sbDisabled = FALSE
    /\ sbInflight = {}
    /\ sbCount = 0
    /\ sbLog = SubmitStep(None, -1, None)

\* What the last dashboard-stats step did: the function, whether it sent a
\* request, the status of the answer it went on from.
StatsStep(fn, sent, status) == [fn |-> fn, sent |-> sent, status |-> status]

\* let dashboardStatsCache = null
DsIdle ==
    /\ dashboardStatsCache = "null"
    /\ dsInflight = {}
    /\ dsIssued = 0
    /\ dsCalls = 0
    /\ dsLog = StatsStep(None, FALSE, -1)

BkIdle ==
    /\ bkRows = 0
    /\ bkChecked = {}
    /\ bkSelectAll = FALSE
    /\ bkListenerRows = 0
    /\ bkBar = FALSE
    /\ bkInflight = {}
    /\ bkCount = 0
    /\ bkLog = None

YIdle == DtIdle /\ LoIdle /\ SbIdle /\ DsIdle /\ BkIdle

XIdle == MIdle /\ EpIdle /\ DomIdle /\ AcIdle /\ YIdle

NoStep ==
    [handler |-> None, confirmed |-> FALSE, selected |-> 0,
     kind |-> None, page |-> 0, by |-> None,
     status |-> -1, result |-> None, events |-> <<>>, thrown |-> FALSE,
     pre |-> [currentPage |-> 1, listData |-> 1, loading |-> FALSE,
              modal |-> "closed"]]

HIdle ==
    /\ screen = None
    /\ onDashboard = FALSE
    /\ location = "page"
    /\ curPage = 1
    /\ listData = 1
    /\ loading = FALSE
    /\ modal = "closed"
    /\ inflight = {}
    /\ reqCount = 0
    /\ isFetchingResults = FALSE
    /\ resultsTabActive = FALSE
    /\ reqBudget = 0
    /\ lastStep = NoStep

(***************************************************************************)
(* Specification SpecApi: apiCall invocations                              *)
(***************************************************************************)

ApiInit == ApiIdle /\ PgIdle /\ FormIdle /\ DbIdle /\ HIdle /\ XIdle

\* One apiCall invocation answered by the server.
ApiCallStep ==
    \E mod \in Modules, slug \in BOOLEAN, resp \in Responses :
        /\ apiIn' = [mod |-> mod, slug |-> slug, resp |-> resp]
        /\ apiOut' = apiCall(mod, slug, resp)
        /\ UNCHANGED <<pgVars, formVars, dbVars, hVars, xVars>>

ApiNext == ApiCallStep

SpecApi == ApiInit /\ [][ApiNext]_vars

(***************************************************************************)
(* Specification SpecPage: pagination renders                              *)
(***************************************************************************)

\* The pagination container is part of the server-rendered page: it is there
\* or not for the page's whole life.
PgInit ==
    /\ ApiIdle
    /\ FormIdle
    /\ DbIdle
    /\ HIdle
    /\ XIdle
    /\ \E container \in BOOLEAN : pgIn = [PgNoInput EXCEPT !.container = container]
    /\ pgOut = <<>>

\* renderPagination called with 1 <= currentPage <= totalPages; an absent
\* container is left alone (if (!container) return).
RenderPaginationStep ==
    \E total \in 1..MaxPages :
      \E cur \in 1..total :
        /\ pgIn' = [fn |-> "renderPagination", container |-> pgIn.container,
                    page |-> cur, total_pages |-> total,
                    previous |-> 0, next |-> 0]
        /\ pgOut' = IF pgIn.container THEN renderPagination(cur, total) ELSE pgOut
        /\ UNCHANGED <<apiVars, formVars, dbVars, hVars, xVars>>

\* renderCollegesCardsPagination called with a list envelope; page 0 stands
\* for a missing page field, previous / next 0 for null.
RenderCollegesCardsPaginationStep ==
    \E total \in 1..MaxPages :
      \E cur \in 0..total, previous \in {0, 1}, next \in {0, 1} :
        LET data == [page |-> cur, total_pages |-> total,
                     previous |-> IF previous = 1 /\ cur > 1 THEN cur - 1 ELSE 0,
                     next |-> IF next = 1 /\ cur < total THEN cur + 1 ELSE 0]
        IN  /\ pgIn' = [fn |-> "renderCollegesCardsPagination",
                        container |-> pgIn.container,
                        page |-> data.page, total_pages |-> data.total_pages,
                        previous |-> data.previous, next |-> data.next]
            /\ pgOut' = IF pgIn.container
                        THEN renderCollegesCardsPagination(data)
                        ELSE pgOut
            /\ UNCHANGED <<apiVars, formVars, dbVars, hVars, xVars>>

\* loadColleges answered with { results: [...], total_pages } while
\* currentPage names one of the pages: renderCollegesTable(collegesData);
\* renderPagination(data.total_pages || 1).  total_pages 0 stands for a
\* missing field.
loadCollegesRenders ==
    \E total \in 0..MaxPages :
      \E cur \in 1..OrOne(total) :
        /\ pgIn' = [fn |-> "loadColleges", container |-> pgIn.container,
                    page |-> cur, total_pages |-> total,
                    previous |-> 0, next |-> 0]
        /\ pgOut' = IF pgIn.container
                    THEN renderPaginationSuperadmin(cur, OrOne(total))
                    ELSE pgOut
        /\ UNCHANGED <<apiVars, formVars, dbVars, hVars, xVars>>

PgNext ==
    \/ RenderPaginationStep
    \/ RenderCollegesCardsPaginationStep
    \/ loadCollegesRenders

SpecPage == PgInit /\ [][PgNext]_vars

(***************************************************************************)
(* Specification SpecForm: one submit of a filled-in create form           *)
(***************************************************************************)

FormInit ==
    /\ ApiIdle
    /\ PgIdle
    /\ DbIdle
    /\ HIdle
    /\ XIdle
    /\ \E kind \in Forms :
          /\ \E data \in FormInputs(kind) : form = [kind |-> kind, data |-> data]
          /\ \E stale \in {{}, {StaleError(kind)}} :
                formOut = FormOut("filled", stale, 0, 0)

\* handleCollegeSubmit up to its first await
SubmitCollegeForm ==
    /\ form.kind = "college"
    /\ formOut.phase = "filled"
    /\ LET errors == validateCollegeForm(form.data)   \* after clearFormErrors()
       IN  formOut' = FormOut("submitted", errors,
                              IF errors = {} THEN 1 ELSE 0, 0)
    /\ UNCHANGED <<form, apiVars, pgVars, dbVars, hVars, xVars>>

\* handleFormSubmit of the announcements page up to its first await
SubmitAnnouncementForm ==
    /\ form.kind = "announcement"
    /\ formOut.phase = "filled"
    /\ LET errors == validateAnnouncementForm(form.data)  \* after clearFieldErrors()
       IN  formOut' =
              IF errors # {}
              THEN FormOut("submitted", errors, 0, 0)
              ELSE IF form.data.target_type = <<"i">> /\ form.data.targeted = 0
              THEN FormOut("submitted", {"individual-targeting-error"}, 0, 0)
              ELSE FormOut("submitted", {}, 1, 0)
    /\ UNCHANGED <<form, apiVars, pgVars, dbVars, hVars, xVars>>

\* submit handler of the registration page (register.js) up to its first await
SubmitRegistrationForm ==
    /\ form.kind = "registration"
    /\ formOut.phase = "filled"
    /\ LET errors == validateRegistrationForm(form.data)  \* after clearAllErrors()
       IN  formOut' =
              IF errors # {}
              THEN FormOut("submitted", errors, 0, 1)
              ELSE FormOut("submitted", {}, 1, 0)
    /\ UNCHANGED <<form, apiVars, pgVars, dbVars, hVars, xVars>>

\* submit handler of the register form (admin.js) up to its first await;
\* validateForm clears the error of every required field that passes.
SubmitRegisterForm ==
    /\ form.kind = "register"
    /\ formOut.phase = "filled"
    /\ LET errors == validateRegisterForm(form.data)
       IN  formOut' =
              FormOut("submitted",
                      (formOut.errors \ RegisterRequired) \cup errors,
                      IF errors = {} THEN 1 ELSE 0, 0)
    /\ UNCHANGED <<form, apiVars, pgVars, dbVars, hVars, xVars>>

FormNext ==
    \/ SubmitCollegeForm
    \/ SubmitAnnouncementForm
    \/ SubmitRegistrationForm
    \/ SubmitRegisterForm

SpecForm == FormInit /\ [][FormNext]_vars

(***************************************************************************)
(* Specification SpecDebounce: typing into one search box                  *)
(***************************************************************************)

\* The search box is empty and no timer is pending.  The detail modal has
\* been opened (its search box is only reachable then); the units results
\* container is part of the server-rendered page or not.
DbInit ==
    /\ ApiIdle
    /\ PgIdle
    /\ FormIdle
    /\ HIdle
    /\ XIdle
    /\ searchInput \in SearchInputs
    /\ now = 0
    /\ searchTimeout = NoTimer
    /\ searchTerm = Empty
    /\ inputValue = Empty
    /\ inputEvents = <<>>
    /\ listRequests = <<>>
    /\ detailModalType = IF searchInput = "detail" THEN "students" ELSE None
    /\ unitsResults \in (IF searchInput = "units" THEN BOOLEAN ELSE {FALSE})

\* The input handler: clearTimeout(searchTimeout), capture the term (detail,
\* cards), searchTimeout = setTimeout(callback, wait).
InputEvent ==
    /\ Len(inputEvents) < MaxInputs
    /\ \E v \in SearchValues :
          /\ inputValue' = v
          /\ searchTerm' = IF CapturesTerm(searchInput) THEN Trim(v) ELSE searchTerm
          /\ inputEvents' = Append(inputEvents, [at |-> now, value |-> v])
    /\ searchTimeout' = setTimeoutDue(now, DebounceDelay(searchInput))
    /\ UNCHANGED <<searchInput, now, listRequests, detailModalType, unitsResults,
                   apiVars, pgVars, formVars, hVars, xVars>>

\* The setTimeout callback runs when it is due and starts the list load.
TimerFires ==
    /\ searchTimeout # NoTimer
    /\ searchTimeout <= now
    /\ searchTimeout' = NoTimer
    /\ listRequests' =
          IF CallbackRequests(searchInput, detailModalType, unitsResults)
          THEN Append(listRequests,
                      [at |-> now,
                       search |-> RequestSearch(searchInput, inputValue, searchTerm)])
          ELSE listRequests
    /\ UNCHANGED <<searchInput, now, searchTerm, inputValue, inputEvents,
                   detailModalType, unitsResults, apiVars, pgVars, formVars, hVars, xVars>>

\* 100 ms pass; a due callback runs before time moves on.
Tick ==
    /\ now < MaxTime
    /\ searchTimeout = NoTimer \/ searchTimeout > now
    /\ now' = now + 1
    /\ UNCHANGED <<searchInput, searchTimeout, searchTerm, inputValue,
                   inputEvents, listRequests, detailModalType, unitsResults,
                   apiVars, pgVars, formVars, hVars, xVars>>

\* closeDetailModal (close button, backdrop click, Escape)
CloseDetailModal ==
    /\ searchInput = "detail"
    /\ detailModalType # None
    /\ detailModalType' = None
    /\ UNCHANGED <<searchInput, now, searchTimeout, searchTerm, inputValue,
                   inputEvents, listRequests, unitsResults,
                   apiVars, pgVars, formVars, hVars, xVars>>

DbNext == InputEvent \/ TimerFires \/ Tick \/ CloseDetailModal

SpecDebounce == DbInit /\ [][DbNext]_vars

(***************************************************************************)
(* Specification SpecModal: one create / edit modal, opened, filled in,    *)
(* submitted and closed                                                    *)
(***************************************************************************)

\* The page as rendered by the server: the modal closed, its form untouched.
MInit ==
    /\ ApiIdle
    /\ PgIdle
    /\ FormIdle
    /\ DbIdle
    /\ HIdle
    /\ EpIdle
    /\ DomIdle
    /\ AcIdle
    /\ YIdle
    /\ dialog \in Dialogs
    /\ modalActive = FALSE
    /\ modalForm = FreshForm
    /\ editPending = NoTarget
    /\ modalLog = ModalOp(None, None, NoTarget, None)

mRest == <<apiVars, pgVars, formVars, dbVars, hVars, epVars, domVars, acVars,
          yVars>>

\* The "add" button: openCollegeModal() / openCreateModal() /
\* openTimetableModal().  The page's buttons are under the open modal's
\* backdrop, so a modal is opened from the closed state.
OpenCreate ==
    /\ ~modalActive
    /\ dialog \in {"college", "announcement", "timetable"}
    /\ modalForm' = CASE dialog = "college" -> openCollegeModal(modalForm, NoTarget)
                      [] dialog = "announcement" -> openCreateModal(modalForm)
                      [] dialog = "timetable" -> openTimetableModal(modalForm, NoTarget)
    /\ modalActive' = TRUE
    /\ modalLog' = ModalOp("openCreate", None, NoTarget, "create")
    /\ UNCHANGED <<dialog, editPending, mRest>>

\* openModal(modalId) of the common utilities: the form is left as it is.
openModal ==
    /\ ~modalActive
    /\ dialog = "common"
    /\ modalActive' = TRUE
    /\ modalLog' = ModalOp("openModal", None, NoTarget, "open")
    /\ UNCHANGED <<dialog, modalForm, editPending, mRest>>

\* editCollege(id) / editTimetable(id): the row's edit button (the timetable
\* form is filled in by loadTimetableForEdit)
EditRow ==
    /\ ~modalActive
    /\ dialog \in {"college", "timetable"}
    /\ \E id \in 1..MaxId :
          /\ modalForm' = IF dialog = "college"
                          THEN openCollegeModal(modalForm, id)
                          ELSE openTimetableModal(modalForm, id)
          /\ modalLog' = ModalOp("edit", None, id, "edit")
    /\ modalActive' = TRUE
    /\ UNCHANGED <<dialog, editPending, mRest>>

\* editStudent(id): viewMode = '', editId = id, the fields prefilled and
\* enabled, the submit button shown
editStudent ==
    /\ ~modalActive
    /\ dialog = "student"
    /\ \E id \in 1..MaxId :
          /\ modalForm' = FormState(TRUE, modalForm.errors, id, "edit", FALSE, FALSE)
          /\ modalLog' = ModalOp("editStudent", None, id, "edit")
    /\ modalActive' = TRUE
    /\ UNCHANGED <<dialog, editPending, mRest>>

\* viewStudentDetails(id): viewMode = 'true', editId = '', the fields
\* prefilled and disabled, the submit button hidden
viewStudentDetails ==
    /\ ~modalActive
    /\ dialog = "student"
    /\ \E id \in 1..MaxId :
          modalLog' = ModalOp("viewStudentDetails", None, id, "view")
    /\ modalForm' = FormState(TRUE, modalForm.errors, NoTarget, "view", TRUE, TRUE)
    /\ modalActive' = TRUE
    /\ UNCHANGED <<dialog, editPending, mRest>>

\* editAnnouncement(id) up to its await: the announcement is fetched
editAnnouncement ==
    /\ ~modalActive
    /\ dialog = "announcement"
    /\ editPending = NoTarget
    /\ \E id \in 1..MaxId :
          /\ editPending' = id
          /\ modalLog' = [modalLog EXCEPT !.op = "editAnnouncement", !.method = None,
                                          !.id = id]
    /\ UNCHANGED <<dialog, modalActive, modalForm, mRest>>

\* editAnnouncement from its await on: the form is filled in and the modal
\* opened, whatever happened meanwhile; a failed fetch shows a toast.
editAnnouncementSettles ==
    /\ editPending # NoTarget
    /\ editPending' = NoTarget
    /\ \E ok \in BOOLEAN :
          IF ok
          THEN /\ modalForm' = [modalForm EXCEPT !.target = editPending,
                                    !.title = "edit", !.filled = TRUE]
               /\ modalActive' = TRUE
               /\ modalLog' = ModalOp("editAnnouncement", None, editPending, "edit")
          ELSE /\ modalLog' = [modalLog EXCEPT !.op = "editAnnouncement",
                                               !.method = None, !.id = editPending]
               /\ UNCHANGED <<modalForm, modalActive>>
    /\ UNCHANGED <<dialog, mRest>>

\* The user types into a field of the open form.
TypeIntoForm ==
    /\ modalActive
    /\ ~modalForm.disabled
    /\ ~modalForm.filled
    /\ modalForm' = [modalForm EXCEPT !.filled = TRUE]
    /\ modalLog' = [modalLog EXCEPT !.op = "input", !.method = None, !.id = NoTarget]
    /\ UNCHANGED <<dialog, modalActive, editPending, mRest>>

\* The close button, the cancel button or a click on the backdrop.
CloseModal ==
    /\ modalActive
    /\ modalActive' = FALSE
    /\ modalForm' = closeModal(dialog, modalForm)
    /\ modalLog' = [modalLog EXCEPT !.op = "closeModal", !.method = None,
                                    !.id = NoTarget]
    /\ UNCHANGED <<dialog, editPending, mRest>>

\* handleCollegeSubmit / handleFormSubmit up to the await: the field errors
\* are cleared, an invalid form gets its field errors and sends nothing, a
\* valid one is sent as an update when the edit target is set and as a
\* create otherwise.
SubmitForm ==
    /\ modalActive
    /\ dialog \in {"college", "announcement"}
    /\ \E valid \in (IF modalForm.filled THEN BOOLEAN ELSE {FALSE}) :
          /\ modalForm' = [modalForm EXCEPT !.errors = ~valid]
          /\ modalLog' =
                IF ~valid THEN [modalLog EXCEPT !.op = "submit", !.method = None,
                                                !.id = NoTarget]
                ELSE IF modalForm.target # NoTarget
                THEN [modalLog EXCEPT !.op = "submit", !.method = "PUT",
                                      !.id = modalForm.target]
                ELSE [modalLog EXCEPT !.op = "submit", !.method = "POST",
                                      !.id = NoTarget]
    /\ UNCHANGED <<dialog, modalActive, editPending, mRest>>

\* handleTimetableSubmit up to the fetch: without an image only an edit is
\* sent; the title decides between PUT and POST, and the URL names the
\* timetable when it is an edit and dataset.timetableId is set.
handleTimetableSubmit ==
    /\ modalActive
    /\ dialog = "timetable"
    /\ LET isEdit == modalForm.title = "edit"
           valid == modalForm.filled \/ isEdit
       IN  modalLog' =
              IF ~valid THEN [modalLog EXCEPT !.op = "submit", !.method = None,
                                              !.id = NoTarget]
              ELSE [modalLog EXCEPT !.op = "submit",
                        !.method = IF isEdit THEN "PUT" ELSE "POST",
                        !.id = IF isEdit THEN modalForm.target ELSE NoTarget]
    /\ UNCHANGED <<dialog, modalActive, modalForm, editPending, mRest>>

\* The submit handlers from the await on, the request having succeeded:
\* closeModal() (a failed request leaves the modal as it is).
SubmitSucceeds ==
    /\ modalActive
    /\ modalLog.op = "submit"
    /\ modalLog.method # None
    /\ modalActive' = FALSE
    /\ modalForm' = closeModal(dialog, modalForm)
    /\ modalLog' = [modalLog EXCEPT !.op = "closeModal", !.method = None,
                                    !.id = NoTarget]
    /\ UNCHANGED <<dialog, editPending, mRest>>

\* The submit handlers from the await on, the request having failed: a
\* toast; the announcement form shows the server's field errors when the
\* error carries them.  The modal stays open.
SubmitFails ==
    /\ modalActive
    /\ modalLog.op = "submit"
    /\ modalLog.method # None
    /\ \E fieldErrors \in (IF dialog = "announcement" THEN BOOLEAN ELSE {FALSE}) :
          modalForm' = [modalForm EXCEPT !.errors = @ \/ fieldErrors]
    /\ modalLog' = [modalLog EXCEPT !.op = "submitFailed"]
    /\ UNCHANGED <<dialog, modalActive, editPending, mRest>>

MNext ==
    \/ OpenCreate
    \/ openModal
    \/ EditRow
    \/ editStudent
    \/ viewStudentDetails
    \/ editAnnouncement
    \/ editAnnouncementSettles
    \/ TypeIntoForm
    \/ CloseModal
    \/ SubmitForm
    \/ handleTimetableSubmit
    \/ SubmitSucceeds
    \/ SubmitFails

SpecModal == MInit /\ [][MNext]_vars

(***************************************************************************)
(* Specification SpecEndpoint: one buildApiEndpoint call                   *)
(***************************************************************************)

\* The caller's endpoint string; window.COLLEGE_SLUG set by the template or
\* not.
EpInit ==
    /\ ApiIdle
    /\ PgIdle
    /\ FormIdle
    /\ DbIdle
    /\ HIdle
    /\ MIdle
    /\ DomIdle
    /\ AcIdle
    /\ YIdle
    /\ \E endpoint \in Endpoints, slug \in BOOLEAN :
          epIn = [endpoint |-> endpoint, slug |-> slug, called |-> FALSE]
    /\ epOut = <<>>

BuildApiEndpointStep ==
    /\ ~epIn.called
    /\ epIn' = [epIn EXCEPT !.called = TRUE]
    /\ epOut' = buildApiEndpoint(epIn.endpoint, epIn.slug)
    /\ UNCHANGED <<apiVars, pgVars, formVars, dbVars, hVars, mVars, domVars, acVars,
                   yVars>>

EpNext == BuildApiEndpointStep

SpecEndpoint == EpInit /\ [][EpNext]_vars

(***************************************************************************)
(* Specification SpecDom: renderers and notifiers called on a page that    *)
(* has or lacks the elements they look up                                  *)
(***************************************************************************)

\* The template rendered any of the elements.
DomInit ==
    /\ ApiIdle
    /\ PgIdle
    /\ FormIdle
    /\ DbIdle
    /\ HIdle
    /\ MIdle
    /\ EpIdle
    /\ AcIdle
    /\ YIdle
    /\ present \in SUBSET Elements
    /\ written = {}
    /\ toastCount = 0
    /\ statsCache = FALSE
    /\ domLog = NoDomCall

domRest == <<apiVars, pgVars, formVars, dbVars, hVars, mVars, epVars, acVars,
            yVars>>

\* showToast(type, message) of one of the three modules
showToast ==
    /\ toastCount < MaxToasts
    /\ \E fn \in Notifiers :
          LET found == "toast-container" \in present
          IN  /\ toastCount' = IF found THEN toastCount + 1 ELSE toastCount
              /\ present' = IF ~found /\ LooksUp(fn) = "created"
                            THEN present \cup {"toast-container"} ELSE present
              /\ domLog' = DomCall(fn, "toast-container",
                                   ~found /\ LooksUp(fn) # "guarded", DomState)
    /\ UNCHANGED <<written, statsCache, domRest>>

\* renderCollegesTable(colleges) / renderAnnouncementsTable(announcements):
\* the rows are written into the table body.
renderTable ==
    \E fn \in TableRenderers :
        LET found == "tbody" \in present
        IN  /\ written' = IF found THEN written \cup {"tbody"} ELSE written
            /\ domLog' = DomCall(fn, "tbody", ~found /\ LooksUp(fn) # "guarded",
                                 DomState)
            /\ UNCHANGED <<present, toastCount, statsCache, domRest>>

\* renderPagination of super-admin and of the common utilities: the buttons
\* are written into the pagination container.
renderPaginationInto ==
    \E fn \in PaginationRenderers :
        LET found == "pagination" \in present
        IN  /\ written' = IF found THEN written \cup {"pagination"} ELSE written
            /\ domLog' = DomCall(fn, "pagination",
                                 ~found /\ LooksUp(fn) # "guarded", DomState)
            /\ UNCHANGED <<present, toastCount, statsCache, domRest>>

\* loadDashboardStats() of landing-data: with a cached answer it calls
\* updateDashboardUI at once; otherwise, from its await on, it stores a
\* truthy answer and calls updateDashboardUI, and its catch writes 'Error'
\* into the cards.  Every path dereferences the cards it looks up.
loadDashboardStats ==
    /\ \E answered \in BOOLEAN :
          statsCache' = (statsCache \/ answered)
    /\ LET found == "dashboard-card" \in present
       IN  /\ written' = IF found THEN written \cup {"dashboard-card"} ELSE written
           /\ domLog' = DomCall("updateDashboardUI", "dashboard-card", ~found,
                                DomState)
    /\ UNCHANGED <<present, toastCount, domRest>>

\* The setTimeout callback of a toast: toast.remove()
toastExpires ==
    /\ toastCount > 0
    /\ toastCount' = toastCount - 1
    /\ domLog' = DomCall("toast.remove", "toast-container", FALSE, DomState)
    /\ UNCHANGED <<present, written, statsCache, domRest>>

DomNext ==
    \/ showToast
    \/ toastExpires
    \/ renderTable
    \/ renderPaginationInto
    \/ loadDashboardStats

SpecDom == DomInit /\ [][DomNext]_vars

(***************************************************************************)
(* Specification SpecAccess: enforceAccessControl on a page load           *)
(***************************************************************************)

\* A page has loaded: the roles its template wrote and its path.
AcInit ==
    /\ ApiIdle
    /\ PgIdle
    /\ FormIdle
    /\ DbIdle
    /\ HIdle
    /\ MIdle
    /\ EpIdle
    /\ DomIdle
    /\ YIdle
    /\ windowRole \in Roles
    /\ bodyRole \in Roles
    /\ pathname \in Pathnames
    /\ accessLog = None

\* enforceAccessControl(), run on DOMContentLoaded
enforceAccessControl ==
    /\ accessLog = None
    /\ accessLog' = IF ~isSuperAdmin(windowRole, bodyRole) THEN "stay"
                    ELSE IF isCollegeSpecific(pathname) THEN "redirect"
                    ELSE "stay"
    /\ UNCHANGED <<windowRole, bodyRole, pathname,
                   apiVars, pgVars, formVars, dbVars, hVars, mVars, epVars, domVars,
                   yVars>>

AcNext == enforceAccessControl

SpecAccess == AcInit /\ [][AcNext]_vars

(***************************************************************************)
(* Specification SpecDetail: the detail modal of the analytics cards       *)
(***************************************************************************)

\* The cards a detail modal opens for, the terms typed into its search box,
\* the loadDetailData and loadCollegesCards requests of one run.
DetailTypes == {"students", "lecturers", "colleges", "departments"}
DetailTerms == {"", "ann"}
MaxDetailReq == 2

\* Another request of the two modals may be sent in this run.
DetailBudget == detailCount + cardsCount < MaxDetailReq

dtRest == <<apiVars, pgVars, formVars, dbVars, hVars, mVars, epVars, domVars,
            acVars, loVars, sbVars, dsVars, bkVars>>

DtInit ==
    /\ ApiIdle
    /\ PgIdle
    /\ FormIdle
    /\ DbIdle
    /\ HIdle
    /\ MIdle
    /\ EpIdle
    /\ DomIdle
    /\ AcIdle
    /\ DtIdle
    /\ LoIdle
    /\ SbIdle
    /\ DsIdle
    /\ BkIdle

\* loadDetailData(cardType, page, search) up to its await
DetailRequest(id, type, page, search) ==
    [id |-> id, type |-> type, page |-> page, search |-> search]

\* openDetailModal(cardType), from a click on an analytics card
openDetailModal ==
    /\ ~detailActive
    /\ ~cardsActive      \* an open modal covers the cards
    /\ DetailBudget
    /\ \E cardType \in DetailTypes :
          /\ detailModalData' = [detailModalData EXCEPT !.type = cardType,
                                     !.currentPage = 1, !.searchTerm = ""]
          /\ detailInflight' = detailInflight \cup
                {DetailRequest(detailCount + 1, cardType, 1, "")}
    /\ detailActive' = TRUE
    /\ detailCount' = detailCount + 1
    /\ detailLog' = DetailStep("openDetailModal", TRUE, detailActive)
    /\ UNCHANGED <<detailTimer, cardsOnly, dtRest>>

\* goToDetailPage(page), from a pagination button of the modal
goToDetailPage ==
    /\ detailActive
    /\ DetailBudget
    /\ \E page \in 1..MaxListPage :
          IF page > detailModalData.totalPages
          THEN /\ detailLog' = DetailStep("goToDetailPage", FALSE, detailActive)
               /\ UNCHANGED <<detailModalData, detailInflight, detailCount>>
          ELSE /\ detailModalData' = [detailModalData EXCEPT !.currentPage = page]
               /\ detailInflight' = detailInflight \cup
                     {DetailRequest(detailCount + 1, detailModalData.type, page,
                                    detailModalData.searchTerm)}
               /\ detailCount' = detailCount + 1
               /\ detailLog' = DetailStep("goToDetailPage", TRUE, detailActive)
    /\ UNCHANGED <<detailActive, detailTimer, cardsOnly, dtRest>>

\* The input handler of the modal's search box: clearTimeout, store the
\* term, currentPage = 1, setTimeout(callback, 500)
detailSearchInput ==
    /\ detailActive
    /\ \E term \in DetailTerms :
          /\ detailModalData' = [detailModalData EXCEPT !.searchTerm = term,
                                                        !.currentPage = 1]
          /\ detailTimer' = term
    /\ detailLog' = DetailStep("input", FALSE, detailActive)
    /\ UNCHANGED <<detailActive, detailInflight, detailCount, cardsOnly, dtRest>>

\* The setTimeout callback: if (detailModalData.type) loadDetailData(type, 1,
\* searchTerm)
detailSearchCallback ==
    /\ detailTimer # NoTerm
    /\ detailModalData.type = None \/ DetailBudget
    /\ detailTimer' = NoTerm
    /\ IF detailModalData.type # None
       THEN /\ detailInflight' = detailInflight \cup
                  {DetailRequest(detailCount + 1, detailModalData.type, 1,
                                 detailTimer)}
            /\ detailCount' = detailCount + 1
            /\ detailLog' = DetailStep("searchCallback", TRUE, detailActive)
       ELSE /\ detailLog' = DetailStep("searchCallback", FALSE, detailActive)
            /\ UNCHANGED <<detailInflight, detailCount>>
    /\ UNCHANGED <<detailModalData, detailActive, cardsOnly, dtRest>>

\* populateStudentsTable / populateLecturersTable / populateCollegesTable:
\* currentPage = data.page || 1, totalPages = data.total_pages || 1
populateDetailTable(data, r, resp) ==
    IF resp.body = "object"
    THEN [data EXCEPT !.currentPage = r.page, !.totalPages = MaxListPage]
    ELSE [data EXCEPT !.currentPage = 1, !.totalPages = 1]

\* loadDetailData from its await on: if (responseData) populate...Table
loadDetailDataSettles ==
    /\ \E r \in detailInflight, resp \in ServerAnswers :
          LET out == apiCall("superadmin", TRUE, resp)
          IN  /\ detailInflight' = detailInflight \ {r}
              /\ detailModalData' =
                    IF Truthy(out) THEN populateDetailTable(detailModalData, r, resp)
                    ELSE detailModalData
    /\ detailLog' = DetailStep("loadDetailData", FALSE, detailActive)
    /\ UNCHANGED <<detailActive, detailTimer, detailCount, cardsOnly, dtRest>>

\* closeDetailModal (close button, backdrop click, Escape)
closeDetailModal ==
    /\ detailActive
    /\ detailActive' = FALSE
    /\ detailModalData' = [detailModalData EXCEPT !.type = None,
                               !.currentPage = 1, !.searchTerm = ""]
    /\ detailLog' = DetailStep("closeDetailModal", FALSE, detailActive)
    /\ UNCHANGED <<detailTimer, detailInflight, detailCount, cardsOnly, dtRest>>

\* openCollegesCardsModal(): page 1, empty search, the box cleared, the
\* modal shown, loadCollegesCards() up to its await
openCollegesCardsModal ==
    /\ ~cardsActive
    /\ ~detailActive     \* an open modal covers the cards
    /\ DetailBudget
    /\ collegesCardsData' = CardsClosed
    /\ cardsActive' = TRUE
    /\ cardsInflight' = cardsInflight \cup {DetailRequest(cardsCount + 1, "cards", 1, "")}
    /\ cardsCount' = cardsCount + 1
    /\ cardsLog' = DetailStep("openCollegesCardsModal", TRUE, cardsActive)
    /\ UNCHANGED <<cardsTimer, detailOnly, dtRest>>

\* The input handler of the colleges-cards search box
cardsSearchInput ==
    /\ cardsActive
    /\ \E term \in DetailTerms :
          /\ collegesCardsData' = [currentPage |-> 1, searchTerm |-> term]
          /\ cardsTimer' = term
    /\ cardsLog' = DetailStep("input", FALSE, cardsActive)
    /\ UNCHANGED <<cardsActive, cardsInflight, cardsCount, detailOnly, dtRest>>

\* Its setTimeout callback: loadCollegesCards(1, searchTerm)
cardsSearchCallback ==
    /\ cardsTimer # NoTerm
    /\ DetailBudget
    /\ cardsTimer' = NoTerm
    /\ cardsInflight' = cardsInflight \cup
          {DetailRequest(cardsCount + 1, "cards", 1, cardsTimer)}
    /\ cardsCount' = cardsCount + 1
    /\ cardsLog' = DetailStep("searchCallback", TRUE, cardsActive)
    /\ UNCHANGED <<collegesCardsData, cardsActive, detailOnly, dtRest>>

\* loadCollegesCards from its await on: with a colleges array the page of
\* the answer is stored
loadCollegesCardsSettles ==
    /\ \E r \in cardsInflight, resp \in ServerAnswers :
          LET out == apiCall("superadmin", TRUE, resp)
          IN  /\ cardsInflight' = cardsInflight \ {r}
              /\ collegesCardsData' =
                    IF HasResults(resp, out)
                    THEN [collegesCardsData EXCEPT !.currentPage = r.page]
                    ELSE collegesCardsData
    /\ cardsLog' = DetailStep("loadCollegesCards", FALSE, cardsActive)
    /\ UNCHANGED <<cardsActive, cardsTimer, cardsCount, detailOnly, dtRest>>

\* closeCollegesCardsModal (close button, backdrop click, Escape)
closeCollegesCardsModal ==
    /\ cardsActive
    /\ cardsActive' = FALSE
    /\ collegesCardsData' = CardsClosed
    /\ cardsLog' = DetailStep("closeCollegesCardsModal", FALSE, cardsActive)
    /\ UNCHANGED <<cardsTimer, cardsInflight, cardsCount, detailOnly, dtRest>>

DtNext ==
    \/ openDetailModal
    \/ goToDetailPage
    \/ detailSearchInput
    \/ detailSearchCallback
    \/ loadDetailDataSettles
    \/ closeDetailModal
    \/ openCollegesCardsModal
    \/ cardsSearchInput
    \/ cardsSearchCallback
    \/ loadCollegesCardsSettles
    \/ closeCollegesCardsModal

SpecDetail == DtInit /\ [][DtNext]_vars

(***************************************************************************)
(* Specification SpecLogout: the super-admin logout button                 *)
(***************************************************************************)

loRest == <<apiVars, pgVars, formVars, dbVars, hVars, mVars, epVars, domVars,
            acVars, dtVars, sbVars, dsVars, bkVars>>

\* A super-admin page has loaded; the login may or may not have left a token
\* and user data in localStorage; the CSRF token is in window.csrftoken, in
\* the csrftoken cookie, or nowhere.
LoInit ==
    /\ ApiIdle
    /\ PgIdle
    /\ FormIdle
    /\ DbIdle
    /\ HIdle
    /\ MIdle
    /\ EpIdle
    /\ DomIdle
    /\ AcIdle
    /\ DtIdle
    /\ SbIdle
    /\ DsIdle
    /\ BkIdle
    /\ loStorage \in [token : BOOLEAN, user : BOOLEAN]
    /\ loCsrf \in {"window", "cookie", None}
    /\ loRequest = LogoutRequest("none", -1)
    /\ loLog = LogoutLog(<<>>, Storage(FALSE, FALSE))

\* The page has been told to go to /admin/login/.
Navigating == \E i \in 1..Len(loLog.events) : loLog.events[i] = "href"

\* removeToken(): both keys removed, window.location.href = '/admin/login/'
removeTokenEvents == <<"removeItem:token", "removeItem:user", "href">>

\* window.csrftoken || getCsrfToken(): the cookie is read only when the
\* window has no token; getCsrfToken gives null without the cookie.
csrfSource(csrf) ==
    IF csrf = "window" THEN "csrf:window"
    ELSE IF csrf = "cookie" THEN "csrf:cookie" ELSE "csrf:null"

\* handleLogout(): confirm; removeToken(); the CSRF token from the window or
\* the cookie; fetch('/superadmin/logout/') with then / catch attached
handleLogout ==
    /\ ~Navigating
    /\ \E confirmed \in BOOLEAN :
          IF confirmed
          THEN /\ loStorage' = Storage(FALSE, FALSE)
               /\ loRequest' = LogoutRequest("inflight", -1)
               /\ loLog' = LogoutLog(
                     removeTokenEvents \o
                     <<csrfSource(loCsrf), "fetch">>,
                     loStorage)
          ELSE /\ loLog' = LogoutLog(<<"declined">>, loStorage)
               /\ UNCHANGED <<loStorage, loRequest>>
    /\ UNCHANGED <<loCsrf, loRest>>

\* The fetch settles while the page is still there: then() on any HTTP
\* answer, catch() when there is none; both set window.location.href.
logoutSettles ==
    /\ loRequest.state = "inflight"
    /\ \E resp \in ServerAnswers :
          /\ loRequest' = LogoutRequest("settled", resp.status)
          /\ loLog' = [loLog EXCEPT !.events =
                 @ \o <<IF resp.status = NetworkError THEN "rejected"
                        ELSE "resolved", "href">>]
    /\ UNCHANGED <<loStorage, loCsrf, loRest>>

\* The navigation started by removeToken unloads the page before the fetch
\* has settled: the browser aborts the request and no callback runs.
pageUnloads ==
    /\ Navigating
    /\ loRequest.state = "inflight"
    /\ loRequest' = LogoutRequest("aborted", -1)
    /\ loLog' = [loLog EXCEPT !.events = Append(@, "unload")]
    /\ UNCHANGED <<loStorage, loCsrf, loRest>>

LoNext == handleLogout \/ logoutSettles \/ pageUnloads

SpecLogout == LoInit /\ [][LoNext]_vars

(***************************************************************************)
(* Specification SpecSubmit: the submit button of a form while its request *)
(* is in flight                                                            *)
(***************************************************************************)

\* The college form (super-admin), the registration form of register.js and
\* the register form of admin.js; the submits of one run.
SubmitForms == {"college", "registration", "register"}
MaxSubmits == 2

sbRest == <<apiVars, pgVars, formVars, dbVars, hVars, mVars, epVars, domVars,
            acVars, dtVars, loVars, dsVars, bkVars>>

SbInit ==
    /\ ApiIdle
    /\ PgIdle
    /\ FormIdle
    /\ DbIdle
    /\ HIdle
    /\ MIdle
    /\ EpIdle
    /\ DomIdle
    /\ AcIdle
    /\ DtIdle
    /\ LoIdle
    /\ DsIdle
    /\ BkIdle
    /\ sbForm \in SubmitForms
    /\ sbPage = IF sbForm = "college" THEN "modal-closed" ELSE "form"
    /\ sbDisabled = FALSE
    /\ sbInflight = {}
    /\ sbCount = 0
    /\ sbLog = SubmitStep(None, -1, None)

\* How the handler's try block ends: the college form goes through apiCall;
\* the registration forms call fetch and response.json() themselves, which
\* throw without an answer or on a body that is not JSON.
SubmitOutcome(f, resp) ==
    IF f = "college"
    THEN LET out == apiCall("superadmin", TRUE, resp)
         IN  IF out.result = "throw" THEN "thrown"
             ELSE IF Truthy(out) THEN "success" ELSE "error"
    ELSE IF resp.status = NetworkError \/ resp.body \in {"empty", "invalid"}
         THEN "thrown"
         ELSE IF IsOk(resp.status) /\ resp.body = "object" THEN "success"
         ELSE "error"

\* A handler that puts the button back only in its success branch.
submitBtnDisabledAfterNoFinally(outcome) == outcome # "success"

\* finally { submitBtn.disabled = false; }
submitBtnDisabledAfter(outcome) == FALSE

\* openCollegeModal: the college form is in a modal
openFormModal ==
    /\ sbPage = "modal-closed"
    /\ sbPage' = "modal-open"
    /\ sbLog' = SubmitStep("openCollegeModal", -1, None)
    /\ UNCHANGED <<sbForm, sbDisabled, sbInflight, sbCount, sbRest>>

\* closeModal by the close button, also while the request is in flight
closeFormModal ==
    /\ sbPage = "modal-open"
    /\ sbPage' = "modal-closed"
    /\ sbLog' = SubmitStep("closeModal", -1, None)
    /\ UNCHANGED <<sbForm, sbDisabled, sbInflight, sbCount, sbRest>>

\* The submit event (a click on the enabled submit button, Enter in a field
\* while the button is enabled) up to the await: an invalid form returns
\* before the button is touched.
submitEvent ==
    /\ sbPage \in {"modal-open", "form", "redirecting"}
    /\ ~sbDisabled
    /\ sbCount < MaxSubmits
    /\ \E valid \in BOOLEAN :
          IF valid
          THEN /\ sbDisabled' = TRUE
               /\ sbInflight' = sbInflight \cup {sbCount + 1}
               /\ sbCount' = sbCount + 1
               /\ sbLog' = SubmitStep("sent", -1, None)
          ELSE /\ sbLog' = SubmitStep("returned", -1, None)
               /\ UNCHANGED <<sbDisabled, sbInflight, sbCount>>
    /\ UNCHANGED <<sbForm, sbPage, sbRest>>

\* After a success the college handler closes the modal; the registration
\* handlers start the two-second timer that leads to the login page.
PageAfterSubmit(f, page, outcome) ==
    IF outcome # "success" THEN page
    ELSE IF f = "college" THEN "modal-closed" ELSE "redirecting"

\* The handler from its await on, through try / catch / finally
submitSettles ==
    /\ sbPage # "gone"
    /\ \E id \in sbInflight, resp \in ServerAnswers :
          LET outcome == SubmitOutcome(sbForm, resp)
          IN  /\ sbInflight' = sbInflight \ {id}
              /\ sbDisabled' = submitBtnDisabledAfter(outcome)
              /\ sbPage' = PageAfterSubmit(sbForm, sbPage, outcome)
              /\ sbLog' = SubmitStep("settled", resp.status, outcome)
    /\ UNCHANGED <<sbForm, sbCount, sbRest>>

\* setTimeout(() => { window.location.href = '/admin/login/'; }, 2000)
redirectTimerFires ==
    /\ sbPage = "redirecting"
    /\ sbPage' = "gone"
    /\ sbLog' = SubmitStep("redirect", -1, None)
    /\ UNCHANGED <<sbForm, sbDisabled, sbInflight, sbCount, sbRest>>

SbNext ==
    \/ openFormModal
    \/ closeFormModal
    \/ submitEvent
    \/ submitSettles
    \/ redirectTimerFires

SpecSubmit == SbInit /\ [][SbNext]_vars

(***************************************************************************)
(* Specification SpecStats: the cached dashboard statistics                *)
(***************************************************************************)

\* Calls of loadDashboardStats and refreshDashboardStats in one run.
MaxStatsCalls == 3

dsRest == <<apiVars, pgVars, formVars, dbVars, hVars, mVars, epVars, domVars,
            acVars, dtVars, loVars, sbVars, bkVars>>

\* The script has loaded: nothing cached, nothing requested.
DsInit ==
    /\ ApiIdle
    /\ PgIdle
    /\ FormIdle
    /\ DbIdle
    /\ HIdle
    /\ MIdle
    /\ EpIdle
    /\ DomIdle
    /\ AcIdle
    /\ DtIdle
    /\ LoIdle
    /\ SbIdle
    /\ DsIdle
    /\ BkIdle

\* loadDashboardStats() up to its await, called when the dashboard section
\* is active on load or its nav link is clicked: a cached answer is shown
\* and returned, otherwise dashboard/overview/ is requested.
loadDashboardStatsCalled ==
    /\ dsCalls < MaxStatsCalls
    /\ dsCalls' = dsCalls + 1
    /\ IF dashboardStatsCache # "null"
       THEN /\ dsLog' = StatsStep("loadDashboardStats", FALSE, -1)
            /\ UNCHANGED <<dsInflight, dsIssued>>
       ELSE /\ dsInflight' = dsInflight \cup {dsCalls + 1}
            /\ dsIssued' = dsIssued + 1
            /\ dsLog' = StatsStep("loadDashboardStats", TRUE, -1)
    /\ UNCHANGED <<dashboardStatsCache, dsRest>>

\* loadDashboardStats from its await on: if (data) dashboardStatsCache = data
loadDashboardStatsSettles ==
    /\ \E id \in dsInflight, resp \in ServerAnswers :
          LET out == apiCall("landing", TRUE, resp)
          IN  /\ dsInflight' = dsInflight \ {id}
              /\ dashboardStatsCache' =
                    IF Truthy(out) THEN "set" ELSE dashboardStatsCache
              /\ dsLog' = StatsStep("loadDashboardStats", FALSE, resp.status)
    /\ UNCHANGED <<dsIssued, dsCalls, dsRest>>

\* refreshDashboardStats(): dashboardStatsCache = null; loadDashboardStats()
\* up to its await.  Its request is the first since this refresh.
refreshDashboardStats ==
    /\ dsCalls < MaxStatsCalls
    /\ dsCalls' = dsCalls + 1
    /\ dashboardStatsCache' = "null"
    /\ dsInflight' = dsInflight \cup {dsCalls + 1}
    /\ dsIssued' = 1
    /\ dsLog' = StatsStep("refreshDashboardStats", TRUE, -1)
    /\ UNCHANGED dsRest

DsNext ==
    \/ loadDashboardStatsCalled
    \/ loadDashboardStatsSettles
    \/ refreshDashboardStats

SpecStats == DsInit /\ [][DsNext]_vars

(***************************************************************************)
(* Specification SpecBulk: the college checkboxes and the bulk-actions bar *)
(***************************************************************************)

\* Rows of a colleges table.
MaxRows == 2

\* Requests sent in one behaviour.
MaxBulkReq == 2

bkRest == <<apiVars, pgVars, formVars, dbVars, hVars, mVars, epVars, domVars,
            acVars, dtVars, loVars, sbVars, dsVars>>

\* The first loadColleges has rendered its table; the bar is hidden as the
\* page came, nothing is checked.
BkInit ==
    /\ ApiIdle
    /\ PgIdle
    /\ FormIdle
    /\ DbIdle
    /\ HIdle
    /\ MIdle
    /\ EpIdle
    /\ DomIdle
    /\ AcIdle
    /\ DtIdle
    /\ LoIdle
    /\ SbIdle
    /\ DsIdle
    /\ bkRows \in 0..MaxRows
    /\ bkChecked = {}
    /\ bkSelectAll = FALSE
    /\ bkListenerRows = bkRows
    /\ bkBar = FALSE
    /\ bkInflight = {}
    /\ bkCount = 0
    /\ bkLog = None

BulkRequest(id, cont) == [id |-> id, cont |-> cont]

\* updateBulkActions() of one setupCheckboxes call: the bar is shown when one
\* of the checkboxes that call closed over is checked.
updateBulkActions(selected) == selected > 0

\* A click on a row's checkbox: its change listener is the updateBulkActions
\* of the render that made the row.
checkboxChange ==
    /\ \E i \in 1..bkRows :
          /\ bkChecked' = IF i \in bkChecked THEN bkChecked \ {i}
                          ELSE bkChecked \cup {i}
          /\ bkBar' = updateBulkActions(Cardinality(bkChecked'))
    /\ bkLog' = "checkbox"
    /\ UNCHANGED <<bkRows, bkSelectAll, bkListenerRows, bkInflight, bkCount,
                   bkRest>>

\* A click on #select-all: every change listener added so far runs, the
\* newest last; each sets the checkboxes it closed over and updates the bar.
\* After an empty table was rendered the newest one still holds the rows of
\* the table before.
selectAllChange ==
    /\ bkSelectAll' = ~bkSelectAll
    /\ bkChecked' = IF bkSelectAll' THEN 1..bkRows ELSE {}
    /\ bkBar' = IF bkListenerRows = 0 THEN bkBar
                ELSE updateBulkActions(IF bkSelectAll' THEN bkListenerRows ELSE 0)
    /\ bkLog' = "select-all"
    /\ UNCHANGED <<bkRows, bkListenerRows, bkInflight, bkCount, bkRest>>

\* handleBulkApprove / handleBulkSuspend / handleBulkDelete up to the await:
\* nothing without a checked row or without the user's confirm.
handleBulk ==
    /\ bkCount < MaxBulkReq
    /\ \E confirmed \in BOOLEAN :
          IF bkChecked = {} \/ ~confirmed
          THEN /\ bkLog' = "bulk:return"
               /\ UNCHANGED <<bkInflight, bkCount>>
          ELSE /\ bkInflight' = bkInflight \cup {BulkRequest(bkCount + 1, "bulk")}
               /\ bkCount' = bkCount + 1
               /\ bkLog' = "bulk:sent"
    /\ UNCHANGED <<bkRows, bkChecked, bkSelectAll, bkListenerRows, bkBar, bkRest>>

\* loadColleges() up to the await (a filter, a page button, or the bulk
\* handler after its answer).
loadCollegesSends(pending) ==
    /\ bkInflight' = pending \cup {BulkRequest(bkCount + 1, "list")}
    /\ bkCount' = bkCount + 1

reloadColleges ==
    /\ bkCount < MaxBulkReq
    /\ loadCollegesSends(bkInflight)
    /\ bkLog' = "reload"
    /\ UNCHANGED <<bkRows, bkChecked, bkSelectAll, bkListenerRows, bkBar, bkRest>>

\* The bulk request is answered: on success loadColleges() is called, on
\* failure the error is logged.
handleBulkSettles ==
    /\ \E q \in {r \in bkInflight : r.cont = "bulk"} :
          \E ok \in BOOLEAN :
             IF ok
             THEN /\ loadCollegesSends(bkInflight \ {q})
                  /\ bkLog' = "bulk:ok"
             ELSE /\ bkInflight' = bkInflight \ {q}
                  /\ bkLog' = "bulk:failed"
                  /\ UNCHANGED bkCount
    /\ UNCHANGED <<bkRows, bkChecked, bkSelectAll, bkListenerRows, bkBar, bkRest>>

\* renderCollegesTable(colleges) when loadColleges is answered (an empty
\* list on failure): new rows with unchecked boxes; setupCheckboxes() only
\* when there are rows; the bar and #select-all are not touched.
renderCollegesTable ==
    /\ \E q \in {r \in bkInflight : r.cont = "list"} :
          /\ bkInflight' = bkInflight \ {q}
          /\ \E n \in 0..MaxRows :
                /\ bkRows' = n
                /\ bkListenerRows' = IF n > 0 THEN n ELSE bkListenerRows
    /\ bkChecked' = {}
    /\ bkLog' = "render"
    /\ UNCHANGED <<bkSelectAll, bkBar, bkCount, bkRest>>

BkNext ==
    \/ checkboxChange
    \/ selectAllChange
    \/ handleBulk
    \/ handleBulkSettles
    \/ reloadColleges
    \/ renderCollegesTable

SpecBulk == BkInit /\ [][BkNext]_vars

(***************************************************************************)
(* Specification Spec: one list screen, its loaders and mutation handlers  *)
(***************************************************************************)

others == <<apiVars, pgVars, formVars, dbVars, xVars>>

\* The screen has loaded the first pages of its list; nothing is in flight.
Init ==
    /\ ApiIdle
    /\ PgIdle
    /\ FormIdle
    /\ DbIdle
    /\ XIdle
    /\ screen \in Screens
    /\ onDashboard \in (IF screen = "colleges" THEN BOOLEAN ELSE {FALSE})
    /\ resultsTabActive \in (IF screen = "results" THEN BOOLEAN ELSE {FALSE})
    /\ location = "page"
    /\ curPage \in 1..MaxListPage
    /\ listData = curPage
    /\ loading = FALSE
    /\ modal = "closed"
    /\ inflight = {}
    /\ reqCount = 0
    /\ isFetchingResults = FALSE
    /\ reqBudget = MaxReq
    /\ lastStep = NoStep

\* The user can act while the page is there and has requests left to start.
CanAct(s) == screen = s /\ location = "page" /\ reqCount < reqBudget

\* window.location.href = '/admin/login/' when apiCall redirected
Redirected(out) == IF out.redirect THEN "login" ELSE location

\* ---- colleges screen (super-admin) ----

\* goToPage(page): currentPage = page; loadColleges() up to its await
goToPage ==
    /\ CanAct("colleges")
    /\ \E p \in 1..MaxListPage :
          /\ curPage' = p
          /\ inflight' = inflight \cup
                {Request(reqCount + 1, "loadColleges", "list", p, "goToPage")}
    /\ loading' = TRUE
    /\ reqCount' = reqCount + 1
    /\ lastStep' = Step("goToPage", FALSE, 0, NoReq, NoResp, None,
                        <<"req:list">>, FALSE)
    /\ UNCHANGED <<hStatic, location, listData, modal, isFetchingResults, others>>

\* A loadColleges that drops the answer to a request for a page other than
\* currentPage.
collegesDataIfCurrent(r, has) ==
    IF r.page # curPage THEN listData
    ELSE IF has THEN r.page ELSE EmptyList

\* collegesData after loadColleges got its answer: the rows of the page the
\* request asked for, or nothing.
collegesDataAfter(r, has) == IF has THEN r.page ELSE EmptyList

\* loadColleges from its await on
loadCollegesSettles ==
    /\ location = "page"
    /\ \E r \in { q \in inflight : q.cont = "loadColleges" }, resp \in ServerAnswers :
          /\ LET out == apiCall("superadmin", TRUE, resp)
             IN  /\ inflight' = inflight \ {r}
                 /\ listData' = collegesDataAfter(r, HasResults(resp, out))
                 /\ location' = Redirected(out)
                 /\ lastStep' = Step("loadColleges", FALSE, 0, r, resp, out.result,
                        ErrToasts(out.toasts) \o
                        (IF out.result = "throw" THEN <<"toast:error">> ELSE <<>>),
                        FALSE)
    /\ loading' = FALSE
    /\ UNCHANGED <<hStatic, curPage, modal, reqCount, isFetchingResults, others>>

\* loadDashboardData from its await on
loadDashboardDataSettles ==
    /\ location = "page"
    /\ \E r \in { q \in inflight : q.cont = "loadDashboardData" }, resp \in ServerAnswers :
          /\ LET out == apiCall("superadmin", TRUE, resp)
             IN  /\ inflight' = inflight \ {r}
                 /\ location' = Redirected(out)
                 /\ lastStep' = Step("loadDashboardData", FALSE, 0, r, resp,
                        out.result, ErrToasts(out.toasts), FALSE)
    /\ loading' = FALSE
    /\ UNCHANGED <<hStatic, curPage, listData, modal, reqCount,
                   isFetchingResults, others>>

\* approveCollege / suspendCollege / deleteCollege up to the await
CollegeRowAction(op) ==
    /\ CanAct("colleges")
    /\ \E confirmed \in BOOLEAN :
          /\ lastStep' = Step(op, confirmed, 0, NoReq, NoResp, None,
                IF confirmed THEN <<"req:mutation">> ELSE <<>>, FALSE)
          /\ IF confirmed
             THEN /\ loading' = TRUE
                  /\ inflight' = inflight \cup
                        {Request(reqCount + 1, op, "mutation", 0, op)}
                  /\ reqCount' = reqCount + 1
             ELSE UNCHANGED <<loading, inflight, reqCount>>
    /\ UNCHANGED <<hStatic, location, curPage, listData, modal,
                   isFetchingResults, others>>

\* handleBulkApprove / handleBulkSuspend / handleBulkDelete up to the await
BulkAction(op) ==
    /\ CanAct("colleges")
    /\ \E selected \in 0..MaxSelected, accepted \in BOOLEAN :
          LET confirmed == selected # 0 /\ accepted
          IN  /\ lastStep' = Step(op, confirmed, selected, NoReq, NoResp, None,
                    IF confirmed THEN <<"req:mutation">> ELSE <<>>, FALSE)
              /\ IF confirmed
                 THEN /\ loading' = TRUE
                      /\ inflight' = inflight \cup
                            {Request(reqCount + 1, op, "mutation", 0, op)}
                      /\ reqCount' = reqCount + 1
                 ELSE UNCHANGED <<loading, inflight, reqCount>>
    /\ UNCHANGED <<hStatic, location, curPage, listData, modal,
                   isFetchingResults, others>>

\* The row and bulk handlers from the await on: they do not look at what
\* apiCall returned.
CollegeMutationSettles(op) ==
    /\ location = "page"
    /\ \E r \in { q \in inflight : q.cont = op }, resp \in ServerAnswers :
          /\ LET out == apiCall("superadmin", TRUE, resp)
                 ok == out.result # "throw"
                 reloads == IF ok
                            THEN CollegesReloads("collegeAction", reqCount, curPage, onDashboard)
                            ELSE {}
             IN  /\ inflight' = (inflight \ {r}) \cup reloads
                 /\ reqCount' = reqCount + Cardinality(reloads)
                 /\ location' = Redirected(out)
                 /\ lastStep' = Step(op, FALSE, 0, r, resp, out.result,
                        ErrToasts(out.toasts) \o
                        (IF ok THEN <<"toast:success">> \o
                                    CollegesReloadEvents(onDashboard)
                         ELSE <<>>),
                        FALSE)
    /\ loading' = FALSE      \* finally { hideLoading(); }
    /\ UNCHANGED <<hStatic, curPage, listData, modal, isFetchingResults, others>>

\* openCollegeModal / openModal / openCreateModal / editAnnouncement: the
\* form's modal opens.
OpenModal ==
    /\ location = "page"
    /\ modal = "closed"
    /\ modal' = "open"
    /\ lastStep' = Step("openModal", FALSE, 0, NoReq, NoResp, None, <<>>, FALSE)
    /\ UNCHANGED <<hStatic, location, curPage, listData, loading, inflight,
                   reqCount, isFetchingResults, others>>

\* A submit handler up to its await: an invalid form sends nothing.
SubmitStarts(s, handler) ==
    /\ CanAct(s)
    /\ modal # "closed"
    /\ \E valid \in BOOLEAN :
          /\ lastStep' = Step(handler, FALSE, 0, NoReq, NoResp, None,
                IF valid THEN <<"req:mutation">> ELSE <<>>, FALSE)
          /\ IF valid
             THEN /\ inflight' = inflight \cup
                        {Request(reqCount + 1, handler, "mutation", 0, handler)}
                  /\ reqCount' = reqCount + 1
             ELSE UNCHANGED <<inflight, reqCount>>
    /\ UNCHANGED <<hStatic, location, curPage, listData, loading, modal,
                   isFetchingResults, others>>

\* handleCollegeSubmit up to the await (POST or PUT by form.dataset.collegeId)
handleCollegeSubmit ==
    /\ location = "page"
    /\ SubmitStarts("colleges", "handleCollegeSubmit")

\* handleCollegeSubmit from the await on: if (response) { toast, closeModal,
\* loadColleges, loadDashboardData }
handleCollegeSubmitSettles ==
    /\ location = "page"
    /\ \E r \in { q \in inflight : q.cont = "handleCollegeSubmit" }, resp \in ServerAnswers :
          /\ LET out == apiCall("superadmin", TRUE, resp)
                 ok == Truthy(out)
                 reloads == IF ok
                            THEN CollegesReloads(r.cont, reqCount, curPage, onDashboard)
                            ELSE {}
             IN  /\ inflight' = (inflight \ {r}) \cup reloads
                 /\ reqCount' = reqCount + Cardinality(reloads)
                 /\ location' = Redirected(out)
                 /\ modal' = IF ok THEN "closed" ELSE modal
                 /\ loading' = IF ok THEN TRUE ELSE loading    \* showLoading()
                 /\ lastStep' = Step(r.cont, FALSE, 0, r, resp, out.result,
                        ErrToasts(out.toasts) \o
                        (IF ok THEN <<"toast:success", "closeModal">> \o
                                    CollegesReloadEvents(onDashboard)
                         ELSE <<>>),
                        FALSE)
    /\ UNCHANGED <<hStatic, curPage, listData, isFetchingResults, others>>

\* ---- students and departments screens (landing-data) ----

\* fetchStudents(page) / fetchDepartments(page) from a pagination button,
\* up to the await
FetchList(s, fn) ==
    /\ CanAct(s)
    /\ \E p \in 1..MaxListPage :
          inflight' = inflight \cup {Request(reqCount + 1, fn, "list", p, fn)}
    /\ loading' = TRUE       \* showLoadingState(type)
    /\ reqCount' = reqCount + 1
    /\ lastStep' = Step(fn, FALSE, 0, NoReq, NoResp, None, <<"req:list">>, FALSE)
    /\ UNCHANGED <<hStatic, location, curPage, listData, modal,
                   isFetchingResults, others>>

fetchStudents ==
    /\ location = "page"
    /\ FetchList("students", "fetchStudents")
fetchDepartments ==
    /\ location = "page"
    /\ FetchList("departments", "fetchDepartments")

\* The page state after fetchStudents / fetchDepartments got its answer:
\* data.results and data.page are stored whatever they are; the table
\* renderer writes the rows over the loading row unless data.results is
\* undefined (it throws on .length); hideLoadingState does nothing.
ListStored(r, resp, out) ==
    IF ~Truthy(out) THEN PageState
    ELSE IF HasResults(resp, out)
    THEN [PageState EXCEPT !.currentPage = r.page, !.listData = r.page,
                           !.loading = FALSE]
    ELSE [PageState EXCEPT !.currentPage = Undefined, !.listData = Undefined]

\* fetchStudents from the await on; the caller that awaits it does nothing
\* more.
fetchStudentsSettles ==
    /\ location = "page"
    /\ \E r \in { q \in inflight : q.cont = "fetchStudents" }, resp \in ServerAnswers :
          /\ LET out == apiCall("landing", TRUE, resp)
                 st == ListStored(r, resp, out)
             IN  /\ inflight' = inflight \ {r}
                 /\ curPage' = st.currentPage
                 /\ listData' = st.listData
                 /\ loading' = st.loading
                 /\ location' = Redirected(out)
                 /\ lastStep' = Step("fetchStudents", FALSE, 0, r, resp,
                        out.result, ErrToasts(out.toasts), FALSE)
    /\ UNCHANGED <<hStatic, modal, reqCount, isFetchingResults, others>>

\* createStudent / updateStudent up to the await
saveStudent ==
    /\ location = "page"
    /\ \E fn \in {"createStudent", "updateStudent"} : SubmitStarts("students", fn)

\* createStudent / updateStudent from the await on: if (data) { toast,
\* closeModal, await fetchStudents(currentPage) }; an error is rethrown.
saveStudentSettles ==
    /\ location = "page"
    /\ \E r \in { q \in inflight : q.cont \in {"createStudent", "updateStudent"} }, resp \in ServerAnswers :
          /\ LET out == apiCall("landing", TRUE, resp)
                 ok == Truthy(out)
             IN  /\ inflight' = (inflight \ {r}) \cup
                       (IF ok THEN {Request(reqCount + 1, "fetchStudents", "list",
                                            PageArg(curPage), r.cont)}
                        ELSE {})
                 /\ reqCount' = IF ok THEN reqCount + 1 ELSE reqCount
                 /\ location' = Redirected(out)
                 /\ modal' = IF ok THEN "closed" ELSE modal
                 /\ loading' = IF ok THEN TRUE ELSE loading
                 /\ lastStep' = Step(r.cont, FALSE, 0, r, resp, out.result,
                        ErrToasts(out.toasts) \o
                        (IF ok THEN <<"toast:success", "closeModal", "req:list">>
                         ELSE <<>>),
                        out.result = "throw")
    /\ UNCHANGED <<hStatic, curPage, listData, isFetchingResults, others>>

\* A handler that asks confirm(...) and, when accepted, sends its mutation
\* request; up to the await.
ConfirmStarts(s, handler) ==
    /\ CanAct(s)
    /\ \E confirmed \in BOOLEAN :
          /\ lastStep' = Step(handler, confirmed, 0, NoReq, NoResp, None,
                IF confirmed THEN <<"req:mutation">> ELSE <<>>, FALSE)
          /\ IF confirmed
             THEN /\ inflight' = inflight \cup
                        {Request(reqCount + 1, handler, "mutation", 0, handler)}
                  /\ reqCount' = reqCount + 1
             ELSE UNCHANGED <<inflight, reqCount>>
    /\ UNCHANGED <<hStatic, location, curPage, listData, loading, modal,
                   isFetchingResults, others>>

deleteStudent ==
    /\ location = "page"
    /\ ConfirmStarts("students", "deleteStudent")
updateStudentStatus ==
    /\ location = "page"
    /\ ConfirmStarts("students", "updateStudentStatus")

\* deleteStudent from the await on.  It calls fetch itself: a rejected fetch
\* or a status outside 2xx is thrown, caught and shown in one toast.
deleteStudentSettles ==
    /\ location = "page"
    /\ \E r \in { q \in inflight : q.cont = "deleteStudent" }, resp \in ServerAnswers :
          /\ LET ok == IsOk(resp.status)
             IN  /\ inflight' = (inflight \ {r}) \cup
                       (IF ok THEN {Request(reqCount + 1, "fetchStudents", "list",
                                            PageArg(curPage), r.cont)}
                        ELSE {})
                 /\ reqCount' = IF ok THEN reqCount + 1 ELSE reqCount
                 /\ loading' = IF ok THEN TRUE ELSE loading
                 /\ lastStep' = Step(r.cont, FALSE, 0, r, resp, "response",
                        IF ok THEN <<"toast:success", "req:list">>
                        ELSE <<"toast:error">>,
                        FALSE)
    /\ UNCHANGED <<hStatic, location, curPage, listData, modal,
                   isFetchingResults, others>>

\* updateStudentStatus from the await on: if (response) { toast,
\* await fetchStudents(currentPage) }
updateStudentStatusSettles ==
    /\ location = "page"
    /\ \E r \in { q \in inflight : q.cont = "updateStudentStatus" }, resp \in ServerAnswers :
          /\ LET out == apiCall("landing", TRUE, resp)
                 ok == Truthy(out)
             IN  /\ inflight' = (inflight \ {r}) \cup
                       (IF ok THEN {Request(reqCount + 1, "fetchStudents", "list",
                                            PageArg(curPage), r.cont)}
                        ELSE {})
                 /\ reqCount' = IF ok THEN reqCount + 1 ELSE reqCount
                 /\ location' = Redirected(out)
                 /\ loading' = IF ok THEN TRUE ELSE loading
                 /\ lastStep' = Step(r.cont, FALSE, 0, r, resp, out.result,
                        ErrToasts(out.toasts) \o
                        (IF ok THEN <<"toast:success", "req:list">> ELSE <<>>),
                        FALSE)
    /\ UNCHANGED <<hStatic, curPage, listData, modal, isFetchingResults, others>>

DepartmentSaves == {"createDepartment", "updateDepartment"}

\* fetchDepartments from the await on.  It rethrows what apiCall or the table
\* renderer threw; createDepartment, updateDepartment and deleteDepartment
\* await it inside their own try and toast the error again, and the first two
\* rethrow it.
fetchDepartmentsSettles ==
    /\ location = "page"
    /\ \E r \in { q \in inflight : q.cont = "fetchDepartments" }, resp \in ServerAnswers :
          /\ LET out == apiCall("landing", TRUE, resp)
                 st == ListStored(r, resp, out)
                 failed == out.result = "throw" \/ (Truthy(out) /\ ~HasResults(resp, out))
                 caught == failed /\ r.by \in DepartmentSaves \cup {"deleteDepartment"}
             IN  /\ inflight' = inflight \ {r}
                 /\ curPage' = st.currentPage
                 /\ listData' = st.listData
                 /\ loading' = st.loading
                 /\ location' = Redirected(out)
                 /\ lastStep' = Step("fetchDepartments", FALSE, 0, r, resp,
                        out.result,
                        ErrToasts(out.toasts) \o
                        (IF caught THEN <<"toast:error">> ELSE <<>>),
                        failed /\ r.by # "deleteDepartment")
    /\ UNCHANGED <<hStatic, modal, reqCount, isFetchingResults, others>>

\* createDepartment / updateDepartment up to the await
saveDepartment ==
    /\ location = "page"
    /\ \E fn \in DepartmentSaves : SubmitStarts("departments", fn)

\* createDepartment / updateDepartment from the await on: if (data) { toast,
\* closeModal, await fetchDepartments } else throw; the catch toasts and
\* rethrows.
saveDepartmentSettles ==
    /\ location = "page"
    /\ \E r \in { q \in inflight : q.cont \in DepartmentSaves }, resp \in ServerAnswers :
          /\ LET out == apiCall("landing", TRUE, resp)
                 ok == Truthy(out)
             IN  /\ inflight' = (inflight \ {r}) \cup
                       (IF ok THEN {Request(reqCount + 1, "fetchDepartments", "list",
                                            PageArg(curPage), r.cont)}
                        ELSE {})
                 /\ reqCount' = IF ok THEN reqCount + 1 ELSE reqCount
                 /\ location' = Redirected(out)
                 /\ modal' = IF ok THEN "closed" ELSE modal
                 /\ loading' = IF ok THEN TRUE ELSE loading
                 /\ lastStep' = Step(r.cont, FALSE, 0, r, resp, out.result,
                        ErrToasts(out.toasts) \o
                        (IF ok THEN <<"toast:success", "closeModal", "req:list">>
                         ELSE <<"toast:error">>),
                        ~ok)
    /\ UNCHANGED <<hStatic, curPage, listData, isFetchingResults, others>>

deleteDepartment ==
    /\ location = "page"
    /\ ConfirmStarts("departments", "deleteDepartment")

\* deleteDepartment from the await on: it does not look at what apiCall
\* returned; the catch toasts.
deleteDepartmentSettles ==
    /\ location = "page"
    /\ \E r \in { q \in inflight : q.cont = "deleteDepartment" }, resp \in ServerAnswers :
          /\ LET out == apiCall("landing", TRUE, resp)
                 ok == out.result # "throw"
             IN  /\ inflight' = (inflight \ {r}) \cup
                       (IF ok THEN {Request(reqCount + 1, "fetchDepartments", "list",
                                            PageArg(curPage), r.cont)}
                        ELSE {})
                 /\ reqCount' = IF ok THEN reqCount + 1 ELSE reqCount
                 /\ location' = Redirected(out)
                 /\ loading' = IF ok THEN TRUE ELSE loading
                 /\ lastStep' = Step(r.cont, FALSE, 0, r, resp, out.result,
                        ErrToasts(out.toasts) \o
                        (IF ok THEN <<"toast:success", "req:list">>
                         ELSE <<"toast:error">>),
                        FALSE)
    /\ UNCHANGED <<hStatic, curPage, listData, modal, isFetchingResults, others>>

\* ---- enrollments screen (landing-data) ----

\* fetchEnrollments(page) from a pagination button, up to the await
fetchEnrollments ==
    /\ location = "page"
    /\ FetchList("enrollments", "fetchEnrollments")

\* fetchEnrollments from the await on: the table is rendered from
\* data.results, or emptied and reset to page 1 on any other answer.
fetchEnrollmentsSettles ==
    /\ location = "page"
    /\ \E r \in { q \in inflight : q.cont = "fetchEnrollments" }, resp \in ServerAnswers :
          /\ LET out == apiCall("landing", TRUE, resp)
                 has == HasResults(resp, out)
             IN  /\ inflight' = inflight \ {r}
                 /\ curPage' = IF has THEN r.page ELSE 1
                 /\ listData' = IF has THEN r.page ELSE EmptyList
                 /\ location' = Redirected(out)
                 /\ lastStep' = Step("fetchEnrollments", FALSE, 0, r, resp,
                        out.result, ErrToasts(out.toasts), FALSE)
    /\ loading' = FALSE
    /\ UNCHANGED <<hStatic, modal, reqCount, isFetchingResults, others>>

\* ---- results screen (landing-data) ----

\* A fetchResults without the in-flight flag.
fetchResultsRunsNoFlag == resultsTabActive

\* fetchResults goes on past its guards: the results tab is active and no
\* results fetch is in flight.
fetchResultsRuns == resultsTabActive /\ ~isFetchingResults

\* fetchResults(page) from a pagination button, up to the await
fetchResults ==
    /\ CanAct("results")
    /\ IF fetchResultsRuns
       THEN /\ \E p \in 1..MaxListPage :
                  inflight' = inflight \cup
                      {Request(reqCount + 1, "fetchResults", "list", p, "fetchResults")}
            /\ isFetchingResults' = TRUE
            /\ loading' = TRUE
            /\ reqCount' = reqCount + 1
            /\ lastStep' = Step("fetchResults", FALSE, 0, NoReq, NoResp, None,
                                <<"req:list">>, FALSE)
       ELSE /\ lastStep' = Step("fetchResults", FALSE, 0, NoReq, NoResp, None,
                                <<>>, FALSE)
            /\ UNCHANGED <<inflight, isFetchingResults, loading, reqCount>>
    /\ UNCHANGED <<hStatic, location, curPage, listData, modal, others>>

\* fetchResults from the await on: the flag is cleared; the table is rendered
\* from data.results, or emptied and reset to page 1 on any other answer.
fetchResultsSettles ==
    /\ location = "page"
    /\ \E r \in { q \in inflight : q.cont = "fetchResults" }, resp \in ServerAnswers :
          /\ LET out == apiCall("landing", TRUE, resp)
                 has == HasResults(resp, out)
             IN  /\ inflight' = inflight \ {r}
                 /\ curPage' = IF has THEN r.page ELSE 1
                 /\ listData' = IF has THEN r.page ELSE EmptyList
                 /\ location' = Redirected(out)
                 /\ lastStep' = Step("fetchResults", FALSE, 0, r, resp, out.result,
                        ErrToasts(out.toasts), FALSE)
    /\ isFetchingResults' = FALSE
    /\ loading' = FALSE
    /\ UNCHANGED <<hStatic, modal, reqCount, others>>

\* saveResult up to the await
saveResult ==
    /\ location = "page"
    /\ SubmitStarts("results", "saveResult")

\* saveResult from the await on: if (data) { toast, closeModal,
\* await fetchResults(currentPage) }; an error is rethrown.
saveResultSettles ==
    /\ location = "page"
    /\ \E r \in { q \in inflight : q.cont = "saveResult" }, resp \in ServerAnswers :
          /\ LET out == apiCall("landing", TRUE, resp)
                 ok == Truthy(out)
                 fetches == ok /\ fetchResultsRuns
             IN  /\ inflight' = (inflight \ {r}) \cup
                       (IF fetches THEN {Request(reqCount + 1, "fetchResults", "list",
                                                 curPage, r.cont)}
                        ELSE {})
                 /\ reqCount' = IF fetches THEN reqCount + 1 ELSE reqCount
                 /\ isFetchingResults' = (isFetchingResults \/ fetches)
                 /\ location' = Redirected(out)
                 /\ modal' = IF ok THEN "closed" ELSE modal
                 /\ loading' = IF fetches THEN TRUE ELSE loading
                 /\ lastStep' = Step(r.cont, FALSE, 0, r, resp, out.result,
                        ErrToasts(out.toasts) \o
                        (IF ok THEN <<"toast:success", "closeModal">> ELSE <<>>) \o
                        (IF fetches THEN <<"req:list">> ELSE <<>>),
                        out.result = "throw")
    /\ UNCHANGED <<hStatic, curPage, listData, others>>

\* ---- announcements screen (common utilities apiCall) ----

\* The callback given to renderPagination: currentPage = page;
\* loadAnnouncements() up to the await
loadAnnouncements ==
    /\ CanAct("announcements")
    /\ \E p \in 1..MaxListPage :
          /\ curPage' = p
          /\ inflight' = inflight \cup
                {Request(reqCount + 1, "loadAnnouncements", "list", p,
                         "loadAnnouncements")}
    /\ loading' = TRUE
    /\ reqCount' = reqCount + 1
    /\ lastStep' = Step("loadAnnouncements", FALSE, 0, NoReq, NoResp, None,
                        <<"req:list">>, FALSE)
    /\ UNCHANGED <<hStatic, location, listData, modal, isFetchingResults, others>>

\* loadAnnouncements from the await on: every branch renders the table over
\* the loading row; the catch toasts again and keeps announcementsData.
loadAnnouncementsSettles ==
    /\ location = "page"
    /\ \E r \in { q \in inflight : q.cont = "loadAnnouncements" }, resp \in ServerAnswers :
          /\ LET out == apiCall("common", TRUE, resp)
             IN  /\ inflight' = inflight \ {r}
                 /\ listData' = IF HasResults(resp, out) THEN r.page
                                ELSE IF out.result = "throw" THEN listData
                                ELSE EmptyList
                 /\ location' = Redirected(out)
                 /\ lastStep' = Step("loadAnnouncements", FALSE, 0, r, resp,
                        out.result,
                        ErrToasts(out.toasts) \o
                        (IF out.result = "throw" THEN <<"toast:error">> ELSE <<>>),
                        FALSE)
    /\ loading' = FALSE
    /\ UNCHANGED <<hStatic, curPage, modal, reqCount, isFetchingResults, others>>

\* handleFormSubmit of the announcement form up to the await
handleFormSubmit ==
    /\ location = "page"
    /\ SubmitStarts("announcements", "handleFormSubmit")

deleteAnnouncement ==
    /\ location = "page"
    /\ ConfirmStarts("announcements", "deleteAnnouncement")

\* handleFormSubmit / deleteAnnouncement from the await on: neither looks at
\* what apiCall returned; handleFormSubmit also closes the modal; the catch
\* toasts.
AnnouncementMutationSettles(op) ==
    /\ location = "page"
    /\ \E r \in { q \in inflight : q.cont = op }, resp \in ServerAnswers :
          /\ LET out == apiCall("common", TRUE, resp)
                 ok == out.result # "throw"
                 closes == ok /\ op = "handleFormSubmit"
             IN  /\ inflight' = (inflight \ {r}) \cup
                       (IF ok THEN {Request(reqCount + 1, "loadAnnouncements", "list",
                                            curPage, op)}
                        ELSE {})
                 /\ reqCount' = IF ok THEN reqCount + 1 ELSE reqCount
                 /\ location' = Redirected(out)
                 /\ modal' = IF closes THEN "closed" ELSE modal
                 /\ loading' = IF ok THEN TRUE ELSE loading
                 /\ lastStep' = Step(op, FALSE, 0, r, resp, out.result,
                        ErrToasts(out.toasts) \o
                        (IF ok THEN <<"toast:success">> \o
                                    (IF closes THEN <<"closeModal">> ELSE <<>>) \o
                                    <<"req:list">>
                         ELSE <<"toast:error">>),
                        FALSE)
    /\ UNCHANGED <<hStatic, curPage, listData, isFetchingResults, others>>

Next ==
    \/ goToPage
    \/ loadCollegesSettles
    \/ loadDashboardDataSettles
    \/ \E op \in CollegeOps : CollegeRowAction(op)
    \/ \E op \in BulkOps : BulkAction(op)
    \/ \E op \in CollegeOps \cup BulkOps : CollegeMutationSettles(op)
    \/ OpenModal
    \/ handleCollegeSubmit
    \/ handleCollegeSubmitSettles
    \/ fetchStudents
    \/ fetchStudentsSettles
    \/ saveStudent
    \/ saveStudentSettles
    \/ deleteStudent
    \/ deleteStudentSettles
    \/ updateStudentStatus
    \/ updateStudentStatusSettles
    \/ fetchDepartments
    \/ fetchDepartmentsSettles
    \/ saveDepartment
    \/ saveDepartmentSettles
    \/ deleteDepartment
    \/ deleteDepartmentSettles
    \/ fetchEnrollments
    \/ fetchEnrollmentsSettles
    \/ fetchResults
    \/ fetchResultsSettles
    \/ saveResult
    \/ saveResultSettles
    \/ loadAnnouncements
    \/ loadAnnouncementsSettles
    \/ handleFormSubmit
    \/ deleteAnnouncement
    \/ \E op \in {"handleFormSubmit", "deleteAnnouncement"} :
          AnnouncementMutationSettles(op)

Spec == Init /\ [][Next]_vars

(***************************************************************************)
(* Specification SpecFetch: the list fetchers with requests overlapping    *)
(***************************************************************************)

\* The colleges, students or results screen has loaded a page of its list;
\* the user may start MaxFetch requests.
FetchInit ==
    /\ ApiIdle
    /\ PgIdle
    /\ FormIdle
    /\ DbIdle
    /\ XIdle
    /\ screen \in {"colleges", "students", "results"}
    /\ onDashboard = FALSE
    /\ resultsTabActive \in (IF screen = "results" THEN BOOLEAN ELSE {FALSE})
    /\ location = "page"
    /\ curPage \in 1..MaxListPage
    /\ listData = curPage
    /\ loading = FALSE
    /\ modal = "closed"
    /\ inflight = {}
    /\ reqCount = 0
    /\ isFetchingResults = FALSE
    /\ reqBudget = MaxFetch
    /\ lastStep = NoStep

FetchNext ==
    \/ goToPage
    \/ loadCollegesSettles
    \/ fetchStudents
    \/ fetchStudentsSettles
    \/ fetchResults
    \/ fetchResultsSettles
    \/ OpenModal
    \/ saveResult
    \/ saveResultSettles

SpecFetch == FetchInit /\ [][FetchNext]_vars

(***************************************************************************)
(* Properties of the API clients                                           *)
(***************************************************************************)

\* apiCall received a response (fetch was called and did not reject).
ApiReceived == apiIn.mod # None /\ apiOut.sent /\ apiIn.resp.status # NetworkError

\* C1: whenever an apiCall receives a 403 response, the browser is redirected
\* to /admin/login/ and the response body is not read or parsed as JSON.
C1_Redirect403NoParse ==
    (ApiReceived /\ apiIn.resp.status = 403)
        => (apiOut.redirect /\ ~apiOut.bodyRead)

\* C2: for every apiCall whose response status is 401 or 403, whatever the
\* content type, no toast is shown, no error is thrown to the caller and the
\* browser is redirected to /admin/login/.
C2_AuthFailureBypassesToast ==
    (ApiReceived /\ IsAuthFailure(apiIn.resp.status))
        => (apiOut.toasts = 0 /\ apiOut.result # "throw" /\ apiOut.redirect)

\* The response body is empty or is not JSON.
UnparseableBody == apiIn.resp.body \in {"empty", "invalid"}

\* C13: in every apiCall, a response whose body is empty or not parseable
\* JSON yields a result (no error) when the status is 2xx and a thrown error
\* when it is not, and a non-2xx response whose content type is not JSON
\* yields the thrown generic error 'HTTP <status>: <statusText>'.  The 401
\* and 403 responses, which redirect, are left to C2.
C13_UnparseableBodyByStatus ==
    (ApiReceived /\ ~IsAuthFailure(apiIn.resp.status)) =>
        /\ (UnparseableBody /\ IsOk(apiIn.resp.status)) => apiOut.result # "throw"
        /\ (UnparseableBody /\ ~IsOk(apiIn.resp.status)) => apiOut.result = "throw"
        /\ (~IsOk(apiIn.resp.status) /\ apiIn.resp.ctype # "json") =>
              (apiOut.result = "throw" /\ apiOut.msg = "http_status")

(***************************************************************************)
(* Properties of the pagination renderers                                  *)
(***************************************************************************)

Min(a, b) == IF a < b THEN a ELSE b

\* The pages of the numbered buttons in the container, in order.
NumberedPages == { pgOut[k].page : k \in { j \in 1..Len(pgOut) : pgOut[j].kind = "num" } }

NumberedCount == Cardinality({ j \in 1..Len(pgOut) : pgOut[j].kind = "num" })

\* A windowed renderer has just written its container, for a current page
\* inside 1..total_pages.
PgRendered ==
    /\ pgIn.fn \in Renderers
    /\ pgIn.container
    /\ pgIn.page >= 1 /\ pgIn.page <= pgIn.total_pages

\* C9 as stated: for every totalPages = N >= 1 and currentPage in 1..N, a
\* windowed renderer renders exactly min(N, 7) numbered page buttons, and the
\* buttons for page 1 and page N are among them.
C9_ExactlyMinN7Buttons ==
    PgRendered =>
        /\ NumberedCount = Min(pgIn.total_pages, 7)
        /\ 1 \in NumberedPages
        /\ pgIn.total_pages \in NumberedPages

\* C9 as amended: a windowed renderer renders at most min(N, 7) numbered page
\* buttons, exactly 7 of them when 4 <= currentPage <= N - 3, and the buttons
\* for page 1 and page N are among them; except that the colleges-cards
\* renderer renders no control at all when N = 1.
C9_AtMostMinN7Buttons ==
    PgRendered =>
        IF pgIn.fn = "renderCollegesCardsPagination" /\ pgIn.total_pages = 1
        THEN pgOut = <<>>
        ELSE /\ NumberedCount <= Min(pgIn.total_pages, 7)
             /\ (pgIn.page >= 4 /\ pgIn.page <= pgIn.total_pages - 3)
                    => NumberedCount = 7
             /\ 1 \in NumberedPages
             /\ pgIn.total_pages \in NumberedPages

\* A render of a long list from its first page: fewer than 7 buttons.
C9_Witness ==
    /\ PgRendered
    /\ pgIn.total_pages >= 8
    /\ pgIn.page = 1
    /\ NumberedCount = 4
    /\ pgIn.total_pages \in NumberedPages

\* The controls between Previous and Next.
PgMiddle == SubSeq(pgOut, 2, Len(pgOut) - 1)

\* C10: for every (currentPage, totalPages) with 1 <= currentPage <=
\* totalPages, renderPagination emits a numbered button for page i exactly
\* when i = 1, i = totalPages or |i - currentPage| <= 2, in increasing order,
\* emits exactly one ellipsis for each maximal run of skipped pages (between
\* the two buttons around the run, and nowhere else), and marks Previous
\* disabled exactly when currentPage = 1 and Next disabled exactly when
\* currentPage = totalPages.
C10_WindowEllipsisBounds ==
    (PgRendered /\ pgIn.fn = "renderPagination") =>
        LET cur == pgIn.page
            total == pgIn.total_pages
            mid == PgMiddle
        IN  /\ Len(pgOut) >= 3
            /\ NumberedPages =
                  { i \in 1..total : i = 1 \/ i = total
                                     \/ (i - cur <= 2 /\ cur - i <= 2) }
            /\ NumberedCount = Cardinality(NumberedPages)
            /\ \A k \in 1..Len(mid) : mid[k].kind \in {"num", "ellipsis"}
            /\ mid[1].kind = "num" /\ mid[Len(mid)].kind = "num"
            /\ \A k \in 1..(Len(mid) - 1) :
                  /\ (mid[k].kind = "num" /\ mid[k + 1].kind = "num")
                        => mid[k + 1].page = mid[k].page + 1
                  /\ mid[k].kind = "ellipsis"
                        => /\ mid[k - 1].kind = "num"
                           /\ mid[k + 1].kind = "num"
                           /\ mid[k + 1].page > mid[k - 1].page + 1
            /\ pgOut[1].kind = "prev"
            /\ pgOut[1].disabled <=> (cur = 1)
            /\ pgOut[Len(pgOut)].kind = "next"
            /\ pgOut[Len(pgOut)].disabled <=> (cur = total)

\* A render from the middle of a long list: an ellipsis on either side.
C10_Witness ==
    /\ PgRendered
    /\ pgIn.fn = "renderPagination"
    /\ Cardinality({ k \in 1..Len(pgOut) : pgOut[k].kind = "ellipsis" }) = 2
    /\ ~pgOut[1].disabled
    /\ ~pgOut[Len(pgOut)].disabled

\* The controls of one kind in the container.
ControlsOf(kind) == { k \in 1..Len(pgOut) : pgOut[k].kind = kind }

\* C11: when loadColleges runs with currentPage = 2 and the response has
\* total_pages = 3, the pagination control contains a Previous and a Next
\* button that are both enabled; in general the control has a Next button,
\* which is disabled exactly when currentPage = total_pages.
C11_PreviousNextEnabled ==
    (pgIn.fn = "loadColleges" /\ pgIn.container) =>
        /\ ControlsOf("next") # {}
        /\ \A k \in ControlsOf("next") :
              pgOut[k].disabled <=> (pgIn.page = OrOne(pgIn.total_pages))
        /\ (pgIn.page = 2 /\ pgIn.total_pages = 3) =>
              /\ \E k \in ControlsOf("prev") : ~pgOut[k].disabled
              /\ \E k \in ControlsOf("next") : ~pgOut[k].disabled

(***************************************************************************)
(* Properties of the create forms                                          *)
(***************************************************************************)

\* The required fields the user left blank (nothing typed or selected).
BlankRequired == { f \in RequiredFields(form.kind) : form.data[f] = Empty }

\* C3: on submit of a create form (college form, announcement form, school
\* registration forms) in which at least one required field is blank, the
\* field-error element of each blank required field is populated and no
\* network request is issued.
C3_BlankRequiredBlocksSubmit ==
    (formOut.phase = "submitted" /\ BlankRequired # {}) =>
        /\ \A f \in BlankRequired : ErrorElement(form.kind, f) \in formOut.errors
        /\ formOut.requests = 0

\* A college form submitted with two blank required fields among filled ones.
C3_Witness ==
    /\ formOut.phase = "submitted"
    /\ form.kind = "college"
    /\ BlankRequired = {"owner_phone", "type"}
    /\ formOut.errors = {"owner-phone", "college-type"}
    /\ formOut.requests = 0

(***************************************************************************)
(* Properties of the debounced search inputs                               *)
(***************************************************************************)

\* Three input events have happened and the callback of the third has run.
ThreeInputsSettled == Len(inputEvents) = 3 /\ searchTimeout = NoTimer

\* What the trailing request must carry: the third event's value, trimmed by
\* the handlers that trim.
ThirdValueSent ==
    IF CapturesTerm(searchInput) THEN Trim(inputEvents[3].value)
    ELSE inputEvents[3].value

Count(events, e) == Cardinality({ i \in DOMAIN events : events[i] = e })

\* The last step resumed a function from the answer to a request of this kind.
Answered(kind) == lastStep.kind = kind

\* The create / update handlers.
SaveHandlers ==
    {"handleCollegeSubmit", "createStudent", "updateStudent", "saveResult",
     "handleFormSubmit"} \cup DepartmentSaves

\* C4: after a create or update mutation request succeeds the modal is
\* closed and exactly one list re-fetch is issued, for the page currentPage
\* held at that moment; once that re-fetch completes the loading indicator
\* is not visible.
C4_SuccessfulSaveClosesRefetchesUnloads ==
    /\ (lastStep.handler \in SaveHandlers /\ Answered("mutation")
            /\ IsOk(lastStep.status)) =>
          /\ modal = "closed"
          /\ Count(lastStep.events, "closeModal") = 1
          /\ Count(lastStep.events, "req:list") = 1
          /\ \A r \in inflight :
                (r.kind = "list" /\ r.by = lastStep.handler) =>
                    r.page = lastStep.pre.currentPage
    /\ (Answered("list") /\ lastStep.by \in SaveHandlers) => ~loading

\* C6: every failed API client call made by a handler results in exactly one
\* error toast, and the error is not rethrown out of the handler.
C6_FailedCallOneToastNoRethrow ==
    (lastStep.kind # None /\ lastStep.handler # "deleteStudent"
        /\ ~IsOk(lastStep.status)) =>
          /\ Count(lastStep.events, "toast:error") = 1
          /\ ~lastStep.thrown

\* The six confirm-then-mutate handlers of the colleges table.
CollegeActions == CollegeOps \cup BulkOps

\* The handler was clicked: the mutation request goes out exactly when the
\* confirm dialog was accepted (bulk: with at least one college selected);
\* otherwise nothing is sent and the page state stays as it was.
ConfirmGatesMutation ==
    (lastStep.handler \in CollegeActions /\ lastStep.kind = None) =>
        /\ Count(lastStep.events, "req:mutation") = (IF lastStep.confirmed THEN 1 ELSE 0)
        /\ (lastStep.handler \in BulkOps /\ lastStep.confirmed) => lastStep.selected >= 1
        /\ ~lastStep.confirmed => (lastStep.events = <<>> /\ PageState = lastStep.pre)

\* The mutation request of one of the six handlers was answered with a 2xx
\* status that apiCall resolved.
CollegeActionSucceeded ==
    /\ lastStep.handler \in CollegeActions
    /\ Answered("mutation")
    /\ IsOk(lastStep.status)
    /\ lastStep.result # "throw"

C8_FailedMutationChangesNothing ==
    (Answered("mutation") /\ ~IsOk(lastStep.status)) =>
        /\ Count(lastStep.events, "req:mutation") = 0
        /\ Count(lastStep.events, "req:list") = 0
        /\ Count(lastStep.events, "toast:success") = 0
        /\ listData = lastStep.pre.listData
        /\ curPage = lastStep.pre.currentPage

(***************************************************************************)
(* Properties of the create / edit modals                                  *)
(***************************************************************************)

\* closeModal has just run.
ModalClosed == dialog # None /\ modalLog.op = "closeModal"

\* C12: after any modal close the form is reset, the field-error texts are
\* empty and no edit-target state (collegeId, editId, editingAnnouncementId,
\* timetableId, view-mode flag, disabled inputs) remains set; and a submit
\* of a modal opened for create sends a create request, never an update.
C12_CloseClearsEditState ==
    /\ ModalClosed =>
          /\ ~modalForm.filled
          /\ ~modalForm.errors
          /\ modalForm.target = NoTarget
          /\ ~modalForm.viewMode
          /\ ~modalForm.disabled
    /\ (modalLog.op = "submit" /\ modalLog.method # None
           /\ modalLog.opened = "create") =>
          (modalLog.method = "POST" /\ modalLog.id = NoTarget)

(***************************************************************************)
(* Properties of the endpoint construction                                 *)
(***************************************************************************)

\* The endpoint without its leading slash, its path (up to the first '?')
\* and its query string (from the first '?' on).
EpClean ==
    IF epIn.endpoint # <<>> /\ Head(epIn.endpoint) = "/"
    THEN Tail(epIn.endpoint) ELSE epIn.endpoint

EpPath == SplitFirst(EpClean, "?")

EpQuery == SubSeq(EpClean, Len(EpPath) + 1, Len(EpClean))

\* C14: for every endpoint string, buildApiEndpoint returns
\* /api/<COLLEGE_SLUG>/ followed by the endpoint's path, with a trailing
\* slash added when it has none, followed by the endpoint's query string
\* unchanged; an endpoint that is already normalized comes back unchanged
\* after the prefix.
C14_SlashBeforeQueryKept ==
    (epIn.called /\ epIn.slug) =>
        /\ epOut = SlugPrefix
                   \o (IF EndsWithSlash(EpPath) THEN EpPath ELSE EpPath \o <<"/">>)
                   \o EpQuery
        /\ (EpClean = epIn.endpoint /\ EndsWithSlash(EpPath)) =>
              epOut = SlugPrefix \o epIn.endpoint

(***************************************************************************)
(* Properties of the renderers and notifiers                               *)
(***************************************************************************)

\* The last call looked up an element the page did not have.
ElementAbsent == domLog.fn # None /\ domLog.element \notin domLog.pre.present

\* C15: when the element that a renderer or notifier writes to is absent
\* (table body, pagination container, toast container, dashboard card), the
\* function returns without throwing and without changing state.
C15_AbsentElementEarlyReturn ==
    ElementAbsent => (~domLog.threw /\ DomState = domLog.pre)

(***************************************************************************)
(* Properties of the access control                                        *)
(***************************************************************************)

\* The path has the form /<college-slug>/<segment>/... with one of the ten
\* college segments.
CollegePage ==
    /\ Len(pathname.segments) >= 2
    /\ pathname.segments[1] # ""
    /\ pathname.segments[2] \in
          {"students", "departments", "courses", "units", "lecturers", "exams",
           "fees", "announcements", "timetable", "settings"}
    /\ (Len(pathname.segments) > 2 \/ pathname.trailing)

\* C16: for a user whose role is super_admin (as the page declares it in
\* window.USER_ROLE or on the body), enforceAccessControl redirects to
\* /superadmin/dashboard/ on every path of the form
\* /<college-slug>/<segment>/... with segment one of students, departments,
\* courses, units, lecturers, exams, fees, announcements, timetable,
\* settings; for a user of any other role it never redirects.
C16_SuperAdminKeptOffCollegePages ==
    (accessLog # None) =>
        /\ (("super_admin" \in {windowRole, bodyRole}) /\ CollegePage)
              => accessLog = "redirect"
        /\ ("super_admin" \notin {windowRole, bodyRole}) => accessLog = "stay"

\* A super admin, declared on the body only, opened /nairobi/settings/ and
\* was redirected.
C16_Witness ==
    /\ windowRole = None
    /\ bodyRole = "super_admin"
    /\ pathname = [segments |-> <<"nairobi", "settings">>, trailing |-> TRUE]
    /\ accessLog = "redirect"

\* C25: enforceAccessControl never redirects a super admin whose current
\* path has 'superadmin' as its first segment, whatever the remaining
\* segments are.
C25_SuperAdminPagesNotRedirected ==
    (/\ accessLog # None
     /\ "super_admin" \in {windowRole, bodyRole}
     /\ Len(pathname.segments) >= 1
     /\ pathname.segments[1] = "superadmin") => accessLog = "stay"

(***************************************************************************)
(* Properties of overlapping list fetches                                  *)
(***************************************************************************)

\* The results list requests in flight.
ResultsRequests == { q \in inflight : q.cont = "fetchResults" }

\* The last step was a call of the handler from its start.
Called(handler) == lastStep.handler = handler /\ lastStep.kind = None

\* C17: at most one results list request is in flight at any time; a
\* fetchResults call made while isFetchingResults is true returns without
\* issuing a request; and isFetchingResults is false after every step in
\* which the in-flight results request completes, whatever its answer.
C17_OneResultsRequestInFlight ==
    /\ [](Cardinality(ResultsRequests) <= 1)
    /\ [][(isFetchingResults /\ Called("fetchResults")')
            => (inflight' = inflight /\ lastStep'.events = <<>>)]_vars
    /\ [][(ResultsRequests \ ResultsRequests' # {}) => ~isFetchingResults']_vars

\* A fetchResults call was dropped while the results request was in flight.
C17_Witness ==
    /\ Called("fetchResults")
    /\ lastStep.events = <<>>
    /\ isFetchingResults
    /\ Cardinality(ResultsRequests) = 1

\* The last step was the handler going on from the answer to its request.
Resumed(handler) == lastStep.handler = handler /\ lastStep.kind # None

\* C18: two overlapping list fetches for different pages can complete in the
\* reverse of the order in which they were requested, and then the rows
\* rendered are those of the earlier-requested page while currentPage names
\* the later-requested page: whenever loadColleges goes on from an answer,
\* the rows are those of the page its own request asked for (or none) and
\* currentPage is what goToPage last set.
C18_StaleAnswerRendered ==
    Resumed("loadColleges") =>
        /\ listData \in {lastStep.page, EmptyList}
        /\ curPage = lastStep.pre.currentPage

\* goToPage(1), goToPage(2), the answer for page 2, then the answer for
\* page 1: page 1's rows under currentPage = 2.
C18_Witness ==
    /\ screen = "colleges"
    /\ reqCount = 2
    /\ inflight = {}
    /\ Resumed("loadColleges")
    /\ lastStep.page = 1
    /\ lastStep.pre.listData = 2
    /\ listData = 1
    /\ curPage = 2

\* C19: within one user-action handler the network requests are awaited one
\* after another: no two requests in flight were started by the same
\* handler.
C19_HandlerRequestsSequential ==
    \A q1, q2 \in inflight : q1.by = q2.by => q1 = q2

(***************************************************************************)
(* Properties of failed list fetches                                       *)
(***************************************************************************)

\* The functions that fetch a list.
ListFetchers ==
    {"loadColleges", "fetchStudents", "fetchDepartments", "fetchEnrollments",
     "fetchResults", "loadAnnouncements"}

\* The last step was a list fetcher going on from an answer that is an HTTP
\* error or no answer at all.
ListFetchFailed ==
    /\ lastStep.handler \in ListFetchers
    /\ lastStep.kind = "list"
    /\ ~IsOk(lastStep.status)

\* C20: a list fetch that fails leaves the list's data and currentPage as
\* they were before its answer came.
C20_FailedFetchKeepsState ==
    ListFetchFailed =>
        /\ listData = lastStep.pre.listData
        /\ curPage = lastStep.pre.currentPage

(***************************************************************************)
(* Properties of the detail modal                                          *)
(***************************************************************************)

\* C21: while the detail modal is closed (after closeDetailModal and until
\* the next openDetailModal), detailModalData has type = null,
\* currentPage = 1 and searchTerm = '', also when the answer to a request
\* sent before the close arrives afterwards.
C21_ClosedDetailModalReset ==
    ~detailActive =>
        /\ detailModalData.type = None
        /\ detailModalData.currentPage = 1
        /\ detailModalData.searchTerm = ""

\* C28: after the detail modal or the colleges-cards modal has been closed,
\* a search timer that was pending at the close sends no request when it
\* fires while the modal is closed.
C28_TimerAfterCloseSendsNothing ==
    /\ (detailLog.fn = "searchCallback" /\ ~detailLog.open) => ~detailLog.sent
    /\ (cardsLog.fn = "searchCallback" /\ ~cardsLog.open) => ~cardsLog.sent

(***************************************************************************)
(* Properties of the loading row and the loading overlay                   *)
(***************************************************************************)

\* C22: after a landing-data list fetch (fetchStudents, fetchDepartments and
\* the fetchers written like them) has gone on from its answer, whether
\* with data, with a null result or with an error, the table body no longer
\* shows the loading row.
C22_LoadingRowGoneAfterFetch ==
    (\/ Resumed("fetchStudents")
     \/ Resumed("fetchDepartments")) => ~loading

\* The requests in flight whose function called showLoading before its
\* await: all of the super-admin module's but the form submit.
OverlayRequests == { q \in inflight : q.cont # "handleCollegeSubmit" }

\* C23: in the super-admin module the loading overlay is visible whenever a
\* request started by a function that called showLoading is in flight, and
\* hidden when none is.
C23_OverlayWhileRequestInFlight ==
    (screen = "colleges" /\ location = "page") =>
        (loading <=> OverlayRequests # {})

(***************************************************************************)
(* Properties of the logout                                                *)
(***************************************************************************)

\* The place of the first such event in the log, 0 when there is none.
FirstEvent(e) ==
    IF \E i \in 1..Len(loLog.events) : loLog.events[i] = e
    THEN CHOOSE i \in 1..Len(loLog.events) :
            /\ loLog.events[i] = e
            /\ \A j \in 1..(i - 1) : loLog.events[j] # e
    ELSE 0

\* The fetch was answered or failed.
FirstSettled ==
    IF FirstEvent("resolved") # 0 THEN FirstEvent("resolved")
    ELSE FirstEvent("rejected")

\* C24: on a confirmed logout the POST to /superadmin/logout/ is issued and
\* settled before the browser location is set to /admin/login/; when the
\* confirm dialog is declined the stored token and user data are kept and no
\* request is issued.
C24_LogoutSettlesBeforeRedirect ==
    /\ Navigating =>
          /\ FirstEvent("fetch") # 0
          /\ FirstEvent("fetch") < FirstEvent("href")
          /\ FirstSettled # 0
          /\ FirstSettled < FirstEvent("href")
    /\ (loLog.events = <<"declined">>) =>
          /\ loStorage = loLog.pre
          /\ loRequest.state = "none"

(***************************************************************************)
(* Properties of the submit button                                         *)
(***************************************************************************)

\* C26: while a college-form or school-registration submit request is in
\* flight the submit button is disabled, so at most one submit request per
\* form is in flight at any time; and the button is enabled again after the
\* request has completed, with success, with a server error or with a
\* network error.
C26_SubmitButtonDisabledInFlight ==
    /\ sbInflight # {} => sbDisabled
    /\ Cardinality(sbInflight) <= 1
    /\ (sbLog.fn = "settled" /\ sbLog.outcome \in {"success", "error", "thrown"})
          => ~sbDisabled

\* The second submit of the college form ended with a network error and the
\* button is enabled again.
C26_Witness ==
    /\ sbForm = "college"
    /\ sbCount = 2
    /\ sbLog = SubmitStep("settled", NetworkError, "thrown")
    /\ sbInflight = {}
    /\ ~sbDisabled

(***************************************************************************)
(* Properties of the dashboard statistics cache                            *)
(***************************************************************************)

\* C27: between two refreshDashboardStats calls (and before the first) at
\* most one dashboard/overview request is issued, however many
\* loadDashboardStats calls are made and whenever they are made.
C27_OneOverviewRequestPerRefresh == dsIssued <= 1

(***************************************************************************)
(* Properties of the bulk-actions bar                                      *)
(***************************************************************************)

\* C29: the bulk-actions bar is visible exactly when at least one college
\* checkbox of the current table is checked, also after loadColleges has
\* rendered the table again.
C29_BulkBarIffChecked == bkBar <=> (bkChecked # {})

====
